---- MODULE Spec2Model ----
(***************************************************************************)
(* Carapace agent: the request multiplexer (multiplexer.rs), the framed    *)
(* connection (connection.rs), the reader loop and keepalive monitor       *)
(* (main.rs) and the two ingress handlers (cli_handler.rs, http_proxy.rs). *)
(* Carapace server: the rate limiter (rate_limiter.rs) and the listener    *)
(* (listener.rs), the accept loop and connection tracker (main.rs,         *)
(* connection_tracker.rs), the policy crate (matcher.rs, validator.rs)     *)
(* and the dispatchers (cli_dispatch.rs, http_dispatch.rs).  Protocol:     *)
(* the frame codec (framing.rs).                                           *)
(*                                                                         *)
(* The specifications share the variables below:                           *)
(*   SpecMux    - the Multiplexer API driven by arbitrary callers, with    *)
(*                the receivers of the per-request channels;               *)
(*   SpecConn   - one Connection: construction (establish), send, recv,    *)
(*                kill, is_healthy, reconnect_if_needed, and the peer;     *)
(*   Spec       - the agent: reader loop, keepalive monitor, CLI and HTTP  *)
(*                handlers over one multiplexer and one connection;        *)
(*   FairSpec   - Spec with the fairness of the runtime's scheduling;      *)
(*   SpecRate   - one RateLimiter: concurrent check_request calls,         *)
(*                set_limit and the clock;                                 *)
(*   SpecCodec  - MessageCodec: encode, bytes arriving, decode;            *)
(*   SpecListen - Listener::listen on one connection: read loop, SSE       *)
(*                forwarding task, and the client;                         *)
(*   SpecAccept - the accept loop of the server with its connection cap,   *)
(*                and the drain of main after a signal;                    *)
(*   SpecPolicy - ArgvMatcher and PolicyValidator, one call in a run;      *)
(*   SpecDispatch - Listener::dispatch_message over the rate limiter and   *)
(*                the checks of the CLI and HTTP dispatchers;              *)
(*   SpecProxy  - one request on a route of the agent's HTTP proxy;        *)
(*   SpecSse    - proxy_to_upstream with an upstream that streams;         *)
(*   SpecBackoff - establish_connection with the sleeps between attempts;  *)
(*   SpecExec   - execute_command with the process it spawns, in seconds.  *)
(***************************************************************************)
EXTENDS Integers, Sequences, FiniteSets, TLC

(***************************************************************************)
(* Bounds of the model.                                                    *)
(***************************************************************************)
NumIds == 2          \* request ids 1..NumIds
MaxChannels == 2     \* channels created by register_waiter in one run
MaxHandled == 3      \* messages passed to handle_response in one run
ChanCap == 2         \* mpsc::channel(100), scaled so that a full channel is reachable
NumSenders == 2      \* tasks calling Connection::send concurrently
MaxSends == 3        \* calls of Connection::send in one run
MaxPayload == 2      \* longest serialized message, in bytes
MaxInbound == 1      \* frames from the peer waiting to be read
ReconnectAttempts == 2   \* Connection.reconnect_attempts (connect_with_config's argument)

NumCallers == 2      \* tasks calling RateLimiter::check_request concurrently
MaxChecks == 3       \* calls of check_request in one run
MaxTime == 2         \* the clock runs from 1 to MaxTime
MaxLimit == 1        \* largest max_requests of a window
MaxU64 == 7          \* u64::MAX, scaled: timestamps and window lengths are 0..MaxU64
MaxFrames == 2       \* frames and made-up prefixes written to the codec's wire in one run
MaxClientMsgs == 3   \* messages a client sends on the listener's connection in one run
MaxEvents == 2       \* events a streaming upstream yields for one request

NumConns == 3        \* peers that connect to the server's TCP listener in one run
MaxConnections == 1  \* max_connections (CARAPACE_MAX_CONNECTIONS), scaled
DrainTicks == 2      \* drain_timeout (CARAPACE_SHUTDOWN_TIMEOUT_SECS), in quarter seconds

MaxPatterns == 2     \* longest list of glob patterns of a matcher or a filter
MaxArgs == 2         \* longest argv of a CLI request

MaxDelivered == 2    \* messages delivered to the waiter of one HTTP request
MaxLines == 3        \* lines of an upstream response's body
MaxAttempts == 5     \* largest reconnect_attempts of an establish_connection call
MaxRunSecs == 8      \* seconds a spawned process is followed for

MaxFrameSize == 104857600    \* MAX_FRAME_SIZE = 100 * 1024 * 1024

Ids == 1..NumIds
NoId == 0            \* Error.id = None
NoMsg == [kind |-> "none", id |-> NoId, n |-> 0]

VARIABLES
    waiters,     \* Multiplexer.waiters: request id -> index of the channel whose Sender it holds
    channels,    \* every channel created so far: [id, buf, tx, rx, got, eof]
    hr,          \* the message of a handle_response suspended in tx.send (waiter lock held)
    nHandled,    \* history: the number of handle_response calls made so far
    lastOp,      \* history, under SpecMux and SpecConn: the operation that made the last
                 \* step, where a claim is about it ("op" for any other)
    est,         \* establish_connection: [pc, attempt, built (connect_with_config has returned Ok)]
    child,       \* Connection.child: 0 for None
    frameRead,   \* Connection.frame_read: 0 for None
    frameWrite,  \* Connection.frame_write: 0 for None
    link,        \* the transport under the halves: "none", "up", "closed"
    wlock,       \* holder of frame_write's lock (a sender), 0 when free
    rlock,       \* frame_read's lock is write-held by a recv() in progress
    wbuf,        \* FramedWrite's buffer: encoded bytes not yet written
    wire,        \* bytes written to the transport and not yet decoded by the peer
    snd,         \* per sender: [pc, k (messages started), acked (sends that returned Ok)]
    peerGot,     \* per sender: the last of its messages the peer decoded
    peerBad,     \* the peer decoded a frame that is no message, or one out of order
    inq,         \* frames from the peer not yet returned by recv()
    rd,          \* the reader task of main: [pc, failed (history: a recv has returned Err or
                 \* None and cleanup_on_disconnect has not run since)]
    hs,          \* per ingress request: [pc, ch (its channel), out (how it ended)]
    srvIn,       \* what the server has received and not finished answering (NoId: a Ping)
    sd,          \* main: "run", the signal its select completed with, "cleared" (clear() returned), "exited"
    limiter,     \* RateLimiter: [default_max_requests, default_window_secs]
    windows,     \* RateLimiter.windows: tool -> RateLimitWindow, NoWindow where the map has no entry
    now,         \* current_timestamp(): seconds since the epoch
    mapLock,     \* holder of the write lock of RateLimiter.windows (a caller), 0 when free
    ck,          \* per caller of check_request: [pc, tool, exp, reset] (exp, reset: history)
    rlh,         \* history of the rate limiter: calls made, and per tool what was admitted
    cbuf,        \* the decoder's buffer (src of MessageCodec::decode)
    cwire,       \* the encoder's buffer (dst of MessageCodec::encode), bytes not yet in src
    cres,        \* the last call on the codec: [op, out, msg]
    chist,       \* history of the codec: frames written, messages encoded and not yet
                 \* decoded, and whether all bytes so far are frames within the size limit
    lin,         \* the listener's connection: messages of the client not yet read
    lout,        \* the listener's connection: messages written and flushed to the client
    sseq,        \* the SSE channel: events not yet forwarded
    ls,          \* the listener: [pc (of the read loop), cur (the message in hand), up
                 \* (stdout takes bytes), fwd (the forwarding task runs), eof (the
                 \* client has closed its end)]
    lhist,       \* history of the listener: messages sent by the client, the messages
                 \* read in their order, and per request id how its dispatch ended
    connections, \* ConnectionTracker.connections: the addresses registered, in their order
    srv,         \* main of the server in TCP mode: [pc, elapsed (quarter seconds since the
                 \* drain began), slept (the 250 ms sleep of the select is over),
                 \* notified (the tasks whose shutdown_rx holds the signal)]
    tasks,       \* per connection: where it is, from the client's connect to the end of its task
    matcher,     \* the ArgvMatcher built by ArgvMatcher::new, or NoMatcher
    pcall,       \* the last call on the policy crate: its function, arguments and result
    policy,      \* PolicyConfig.tools of the dispatchers: tool -> its policy, or NoPolicy
    dcall,       \* the last dispatch_message call: request, limiter's verdict, process spawned, upstream request made, message returned
    hp,          \* a handler of http_proxy.rs: its route, where it is, and what it answered the HTTP client
    hrx,         \* the handler's waiter channel: [buf (messages delivered and not received), open (the Sender exists)]
    ups,         \* the upstream's response to the proxied request: [lines (of its body, written so far), open (the body has not ended)]
    pu,          \* the proxy_to_upstream call: request, where it is, seconds waited for the body, result
    bk,          \* a call of establish_connection with its backoff: [pc, initial (reconnect_backoff_ms), attempts (reconnect_attempts), attempt, sleeps (the sleeps made, in ms), out]
    ex           \* a call of execute_command: [pc, timeout (the policy's timeout_secs), elapsed (seconds since the spawn), out]

muxVars == <<waiters, channels, hr, nHandled>>
connVars == <<est, child, frameRead, frameWrite, link, wlock, rlock, wbuf, wire, snd,
              peerGot, peerBad, inq>>
agentVars == <<rd, hs, srvIn, sd>>
vars == <<waiters, channels, hr, nHandled, lastOp, est, child, frameRead,
          frameWrite, link, wlock, rlock, wbuf, wire, snd, peerGot, peerBad, inq,
          rd, hs, srvIn, sd, limiter, windows, now, mapLock, ck, rlh,
          cbuf, cwire, cres, chist, lin, lout, sseq, ls, lhist,
          connections, tasks, srv,
          matcher, pcall,
          policy, dcall,
          hp, hrx,
          ups, pu,
          bk,
          ex>>
rateVars == <<limiter, windows, now, mapLock, ck, rlh>>
codecVars == <<cbuf, cwire, cres, chist>>
listenVars == <<lin, lout, sseq, ls, lhist>>
acceptVars == <<connections, tasks, srv>>
policyVars == <<matcher, pcall>>
dispatchVars == <<policy, dcall>>
proxyVars == <<hp, hrx>>
sseVars == <<ups, pu>>
backoffVars == <<bk>>
execVars == <<ex>>
serviceVars == <<acceptVars, policyVars, dispatchVars, proxyVars, sseVars, backoffVars, execVars>>
serverVars == <<rateVars, codecVars, listenVars, serviceVars>>

(***************************************************************************)
(* The server's rate limiter (rate_limiter.rs), as far as the other        *)
(* specifications need it: the state of a limiter nobody calls.            *)
(***************************************************************************)
RateTools == {"gh", "signal"}
Callers == 1..NumCallers

\* no entry of RateLimiter.windows (window_start 0 is no timestamp: the clock starts at 1)
NoWindow == [requests |-> 0, window_start |-> 0, max_requests |-> 0, window_secs |-> 0]
\* no set_limit was called for the tool
NoOverride == [max |-> 0, secs |-> 0, set |-> FALSE]

CallerIdle == [pc |-> "idle", tool |-> "none", exp |-> FALSE, reset |-> FALSE]

\* what the history knows of a tool before anything happened to its window
NoHistory == [ovr |-> NoOverride, created |-> 0, ws |-> 0, n |-> 0, since |-> 0]

\* RateLimiter::new(1, 1), and nobody calling it
RateIdle ==
    /\ limiter = [default_max_requests |-> 1, default_window_secs |-> 1]
    /\ windows = [t \in RateTools |-> NoWindow]
    /\ now = 1
    /\ mapLock = 0
    /\ ck = [c \in Callers |-> CallerIdle]
    /\ rlh = [calls |-> 0, sets |-> 0, tool |-> [t \in RateTools |-> NoHistory]]

\* a codec nobody calls
CodecIdle ==
    /\ cbuf = <<>>
    /\ cwire = <<>>
    /\ cres = [op |-> "new", out |-> "ok", msg |-> [from |-> 0, k |-> 0]]
    /\ chist = [frames |-> 0, sent |-> <<>>, clean |-> TRUE]

\* a listener without a connection
ListenIdle ==
    /\ lin = <<>>
    /\ lout = <<>>
    /\ sseq = <<>>
    /\ ls = [pc |-> "read", cur |-> [kind |-> "none"], up |-> TRUE, fwd |-> TRUE,
            eof |-> FALSE]
    /\ lhist = [sent |-> 0, seen |-> <<>>, done |-> <<>>]

\* the peers that connect to the TCP listener, by their address
Addrs == 1..NumConns

\* a server nobody connects to
\* main in its accept loop, before any signal
Accepting == [pc |-> "accepting", elapsed |-> 0, slept |-> FALSE, notified |-> {}]

AcceptIdle ==
    /\ connections = <<>>
    /\ tasks = [a \in Addrs |-> "none"]
    /\ srv = Accepting

\* no ArgvMatcher built
NoMatcher == [built |-> FALSE]

\* no call made on the policy crate
NoCall == [fn |-> "none"]

\* the policy crate before any call
PolicyIdle ==
    /\ matcher = NoMatcher
    /\ pcall = NoCall

\* no entry of PolicyConfig.tools
NoPolicy == [type |-> "none"]

\* no dispatch_message call made
NoDispatch == [req |-> [kind |-> "none"]]

\* dispatchers without a policy that nobody calls
DispatchIdle ==
    /\ policy = [t \in RateTools |-> NoPolicy]
    /\ dcall = NoDispatch

\* no request on the HTTP proxy
NoHandler == [pc |-> "idle"]

\* the HTTP proxy without a request
ProxyIdle ==
    /\ hp = NoHandler
    /\ hrx = [buf |-> <<>>, open |-> FALSE]

\* no proxy_to_upstream call
NoProxy == [pc |-> "idle"]

\* the HTTP dispatcher without a call
SseIdle ==
    /\ ups = [lines |-> <<>>, open |-> FALSE]
    /\ pu = NoProxy

\* no establish_connection call whose sleeps are followed
NoEstablish == [pc |-> "idle"]

BackoffIdle == bk = NoEstablish

\* no execute_command call that is followed
NoExec == [pc |-> "idle"]

ExecIdle == ex = NoExec

ServiceIdle == AcceptIdle /\ PolicyIdle /\ DispatchIdle /\ ProxyIdle /\ SseIdle /\ BackoffIdle /\ ExecIdle

ServerIdle == RateIdle /\ CodecIdle /\ ListenIdle /\ ServiceIdle

(***************************************************************************)
(* Messages (messages.rs).  n is the serial of the handle_response call.   *)
(***************************************************************************)
Kinds == {"CliResponse", "HttpResponse", "SseEvent", "Error"}

\* Message::id: every variant has an id, Error's is optional
MsgId(m) ==
    CASE m.kind = "CliResponse" -> m.id
      [] m.kind = "HttpResponse" -> m.id
      [] m.kind = "SseEvent" -> m.id
      [] m.kind = "Error" -> m.id
      [] OTHER -> NoId

\* the messages a caller can pass: only an Error may lack its id
Inputs(n) ==
    {[kind |-> "SseEvent", id |-> i, n |-> n] : i \in Ids}
        \cup {[kind |-> "Error", id |-> NoId, n |-> n]}

(***************************************************************************)
(* Channels: tokio mpsc::channel.  tx: the Sender is alive (it lives only  *)
(* in the waiter table); rx: the Receiver is alive; got: the serial of the *)
(* last message the receiver took out; eof: recv() has returned None.      *)
(***************************************************************************)
NewChannel(id) == [id |-> id, buf |-> <<>>, tx |-> TRUE, rx |-> TRUE, got |-> 0, eof |-> FALSE]

ChanIdx == 1..Len(channels)

\* the mutant of ChanSend: the message jumps the queue
ChanSendFront(ch, m) == [ch EXCEPT !.buf = <<m>> \o @]

\* tx.send(msg) completing on a channel with room
ChanSend(ch, m) == [ch EXCEPT !.buf = Append(@, m)]

\* dropping the Sender
DropSender(ch) == [ch EXCEPT !.tx = FALSE]

\* the mutant of FindWaiter: the id is ignored, any registered waiter gets the message
FindAnyWaiter(w, m) ==
    IF DOMAIN w # {} THEN w[CHOOSE i \in DOMAIN w : \A j \in DOMAIN w : i <= j] ELSE 0

\* msg.id() and waiters.get(id): the channel to send on, 0 for none
FindWaiter(w, m) ==
    IF MsgId(m) # NoId /\ MsgId(m) \in DOMAIN w THEN w[MsgId(m)] ELSE 0

\* Multiplexer::pending_count
PendingCount == Cardinality(DOMAIN waiters)

\* the waiter-table mutex is held across an await only by a suspended handle_response
MuxLocked == hr # NoMsg

Without(w, id) == [i \in (DOMAIN w) \ {id} |-> w[i]]

\* the mutant of Replaced: the Sender that was in the table stays alive
ReplacedNone(w, id) == 0

\* HashMap::insert(id, tx): the channel of the Sender that was in the table under id,
\* which insert returns and the caller drops; 0 for none
Replaced(w, id) == IF id \in DOMAIN w THEN w[id] ELSE 0

\* Multiplexer::register_waiter: insert replaces (and drops) a previous Sender
RegisterWaiter(id) ==
    /\ ~MuxLocked
    /\ Len(channels) < MaxChannels
    /\ LET old == Replaced(waiters, id)
           chs == [c \in ChanIdx |-> IF c = old THEN DropSender(channels[c]) ELSE channels[c]]
       IN  /\ channels' = Append(chs, NewChannel(id))
           /\ waiters' = [i \in (DOMAIN waiters) \cup {id} |->
                             IF i = id THEN Len(channels) + 1 ELSE waiters[i]]
    /\ UNCHANGED <<hr, nHandled>>

\* the send inside handle_response, on channel c: Err on a closed channel (ignored),
\* immediate with room, otherwise the call stays suspended holding the lock
SendTo(c, m) ==
    IF ~channels[c].rx
    THEN /\ UNCHANGED channels
         /\ hr' = NoMsg
    ELSE IF Len(channels[c].buf) < ChanCap
    THEN /\ channels' = [channels EXCEPT ![c] = ChanSend(@, m)]
         /\ hr' = NoMsg
    ELSE /\ UNCHANGED channels
         /\ hr' = m

\* Multiplexer::handle_response
HandleResponse(m) ==
    /\ ~MuxLocked
    /\ nHandled' = nHandled + 1
    /\ UNCHANGED waiters
    /\ LET c == FindWaiter(waiters, m)
       IN  IF c = 0
           THEN UNCHANGED <<channels, hr>>
           ELSE SendTo(c, m)

\* the suspended send completes: room was made, or the receiver went away
HandleResponseResume ==
    /\ MuxLocked
    /\ LET c == FindWaiter(waiters, hr)
       IN  /\ ~channels[c].rx \/ Len(channels[c].buf) < ChanCap
           /\ SendTo(c, hr)
    /\ UNCHANGED <<waiters, nHandled>>

\* Multiplexer::remove_waiter
RemoveWaiter(id) ==
    /\ ~MuxLocked
    /\ IF id \in DOMAIN waiters
       THEN /\ channels' = [channels EXCEPT ![waiters[id]] = DropSender(@)]
            /\ waiters' = Without(waiters, id)
       ELSE UNCHANGED <<channels, waiters>>
    /\ UNCHANGED <<hr, nHandled>>

\* the mutant of DrainAll: the table is emptied but one Sender stays alive
DrainAllButOne(chs, w) ==
    [c \in DOMAIN chs |->
        IF (\E i \in DOMAIN w : w[i] = c) /\ (\E i \in DOMAIN w : w[i] < c)
        THEN DropSender(chs[c]) ELSE chs[c]]

\* waiters.drain() / waiters.clear(): every Sender in the table is dropped
DrainAll(chs, w) ==
    [c \in DOMAIN chs |-> IF \E i \in DOMAIN w : w[i] = c THEN DropSender(chs[c]) ELSE chs[c]]

\* Multiplexer::cleanup_on_disconnect
CleanupOnDisconnect ==
    /\ ~MuxLocked
    /\ channels' = DrainAll(channels, waiters)
    /\ waiters' = <<>>
    /\ UNCHANGED <<hr, nHandled>>

\* Multiplexer::clear
Clear ==
    /\ ~MuxLocked
    /\ channels' = DrainAll(channels, waiters)
    /\ waiters' = <<>>
    /\ UNCHANGED <<hr, nHandled>>

\* rx.recv() returning: the oldest buffered message, or None once the channel is
\* empty and its Sender is gone; with the Sender alive and nothing buffered it stays pending
Recv(c) ==
    /\ channels[c].rx
    /\ ~channels[c].eof
    /\ IF channels[c].buf # <<>>
       THEN channels' = [channels EXCEPT ![c].got = Head(channels[c].buf).n,
                                         ![c].buf = Tail(@)]
       ELSE /\ ~channels[c].tx
            /\ channels' = [channels EXCEPT ![c].eof = TRUE]
    /\ UNCHANGED <<waiters, hr, nHandled>>

\* dropping the Receiver: the channel closes and what it buffered is discarded,
\* and with the receiver goes the record of what it had seen
DropRx(ch) == [ch EXCEPT !.rx = FALSE, !.buf = <<>>, !.got = 0, !.eof = FALSE]

\* the Receiver is dropped
DropReceiver(c) ==
    /\ channels[c].rx
    /\ channels' = [channels EXCEPT ![c] = DropRx(@)]
    /\ UNCHANGED <<waiters, hr, nHandled>>

\* main before any of its tasks has taken a step
AgentIdle ==
    /\ rd = [pc |-> "check", failed |-> FALSE]
    /\ hs = [h \in Ids |-> [pc |-> "idle", ch |-> 0, out |-> "none"]]
    /\ srvIn = {}
    /\ sd = "run"

\* a Connection that takes no part in the run
ConnIdle ==
    /\ est = [pc |-> "ok", attempt |-> 0, built |-> TRUE]
    /\ child = 1 /\ frameRead = 1 /\ frameWrite = 1
    /\ link = "up"
    /\ wlock = 0 /\ rlock = FALSE
    /\ wbuf = <<>> /\ wire = <<>>
    /\ snd = [t \in 1..NumSenders |-> [pc |-> "idle", k |-> 0, acked |-> 0]]
    /\ peerGot = [t \in 1..NumSenders |-> 0]
    /\ peerBad = FALSE
    /\ inq = <<>>

\* Multiplexer::new
InitMux ==
    /\ waiters = <<>>
    /\ channels = <<>>
    /\ hr = NoMsg
    /\ nHandled = 0
    /\ lastOp = "new"
    /\ ConnIdle
    /\ AgentIdle
    /\ ServerIdle

\* a step of the Multiplexer, with what lastOp records of it
Called(op) == lastOp' = op /\ UNCHANGED <<connVars, agentVars, serverVars>>

NextMux ==
    \/ \E id \in Ids : RegisterWaiter(id) /\ Called("op")
    \/ \E m \in Inputs(nHandled + 1) :
          nHandled < MaxHandled /\ HandleResponse(m) /\ Called("op")
    \/ HandleResponseResume /\ Called("op")
    \/ \E id \in Ids : RemoveWaiter(id) /\ Called("op")
    \/ CleanupOnDisconnect /\ Called("cleanup_on_disconnect")
    \/ Clear /\ Called("clear")
    \/ \E c \in ChanIdx : Recv(c) /\ Called("op")
    \/ \E c \in ChanIdx : DropReceiver(c) /\ Called("op")

SpecMux == InitMux /\ [][NextMux]_vars

(***************************************************************************)
(* Framing (framing.rs).  A buffer is a sequence of pieces.  A byte of the *)
(* length prefix is [byte |-> b]; a byte of the serialized message of a    *)
(* sender is [from, k, i]: byte i of message k of sender from, so that a   *)
(* frame put together from pieces does not parse; [json, off, n] stands    *)
(* for the n bytes at offset off of a JSON text, which may be too long to  *)
(* write out byte by byte.                                                 *)
(*                                                                         *)
(* A length that may not fit 32 bits is [hi, lo], standing for             *)
(* hi * 2^32 + lo with lo below 2^31 in absolute value.                    *)
(***************************************************************************)
Senders == 1..NumSenders

Msg(t, k) == [from |-> t, k |-> k]

Size(hi, lo) == [hi |-> hi, lo |-> lo]

\* the messages of the codec's own runs carry the length of their JSON text
IsBulk(m) == "len" \in DOMAIN m

\* serde_json::to_vec(&msg): messages of different lengths
JsonLen(m) == 1 + ((m.from + m.k) % MaxPayload)

\* json.len(), a usize
JsonSize(m) == IF IsBulk(m) THEN m.len ELSE Size(0, JsonLen(m))

\* serde's output for a message: the tag, the fields, and no key for an Option that is
\* None (skip_serializing_if = "Option::is_none")
ToJsonSkippingOption(m) == [type |-> m.variant, id |-> m.id, len |-> m.len]

ToJson(m) ==
    IF m.stdin = "None"
      THEN [type |-> m.variant, id |-> m.id, len |-> m.len]
      ELSE [type |-> m.variant, id |-> m.id, len |-> m.len, stdin |-> m.stdin]

\* serde's reading of a JSON object: a missing Option is None
FromJson(j) ==
    [variant |-> j.type, id |-> j.id, len |-> j.len,
     stdin |-> IF "stdin" \in DOMAIN j THEN j.stdin ELSE "None"]

Serialize(m) ==
    IF IsBulk(m)
      THEN << [json |-> ToJson(m), off |-> 0, n |-> m.len] >>
      ELSE [i \in 1..JsonLen(m) |-> [from |-> m.from, k |-> m.k, i |-> i]]

\* what serde_json::from_slice yields for bytes that are no message
Invalid == Msg(0, 0)

\* serde_json::from_slice(&payload): the message, or Invalid
Deserialize(payload) ==
    IF /\ payload # <<>>
       /\ \A i \in 1..Len(payload) : DOMAIN payload[i] = {"from", "k", "i"}
    THEN LET m == Msg(payload[1].from, payload[1].k)
         IN  IF payload = Serialize(m) THEN m ELSE Invalid
    ELSE IF /\ Len(payload) = 1
            /\ DOMAIN payload[1] = {"json", "off", "n"}
            /\ payload = Serialize(FromJson(payload[1].json))
         THEN FromJson(payload[1].json)
         ELSE Invalid

\* dst.put_u32(length): big-endian
U32BE(n) ==
    << [byte |-> (n \div 16777216) % 256], [byte |-> (n \div 65536) % 256],
       [byte |-> (n \div 256) % 256], [byte |-> n % 256] >>

\* a byte of JSON text is no control character: 0x20 or more, whatever it is
ByteOf(c) == IF DOMAIN c = {"byte"} THEN c.byte ELSE 255

\* the number of bytes of a piece
PieceSize(c) == IF DOMAIN c = {"json", "off", "n"} THEN c.n ELSE Size(0, 1)

\* src.len() >= n
RECURSIVE HasBytes(_, _)
HasBytes(src, n) ==
    \/ n <= 0
    \/ /\ src # <<>>
       /\ \/ PieceSize(src[1]).hi > 0
          \/ HasBytes(Tail(src), n - PieceSize(src[1]).lo)

\* src[i - 1] (bytes counted from 1)
RECURSIVE ByteAt(_, _)
ByteAt(src, i) ==
    IF PieceSize(src[1]).hi > 0 \/ i <= PieceSize(src[1]).lo
      THEN ByteOf(src[1])
      ELSE ByteAt(Tail(src), i - PieceSize(src[1]).lo)

\* the first n bytes of src, which has them
RECURSIVE SplitTo(_, _)
SplitTo(src, n) ==
    IF n = 0 THEN <<>>
    ELSE LET z == PieceSize(src[1]) IN
         IF z.hi = 0 /\ z.lo <= n
           THEN <<src[1]>> \o SplitTo(Tail(src), n - z.lo)
           ELSE << [src[1] EXCEPT !.n = Size(0, n)] >>

\* src without its first n bytes, which it has
RECURSIVE Advance(_, _)
Advance(src, n) ==
    IF n = 0 THEN src
    ELSE LET z == PieceSize(src[1]) IN
         IF z.hi = 0 /\ z.lo <= n
           THEN Advance(Tail(src), n - z.lo)
           ELSE << [src[1] EXCEPT !.off = @ + n, !.n = Size(z.hi, z.lo - n)] >>
                    \o Tail(src)

\* u32::from_be_bytes(src[..4]), for a value that is no more than MAX_FRAME_SIZE
FromBE(b) ==
    ByteAt(b, 1) * 16777216 + ByteAt(b, 2) * 65536 + ByteAt(b, 3) * 256 + ByteAt(b, 4)

\* u32::from_be_bytes(src[..4]) > max, compared byte by byte from the most significant
RECURSIVE BytesExceed(_, _, _)
BytesExceed(b, max, i) ==
    /\ i <= 4
    /\ \/ ByteAt(b, i) > ByteOf(U32BE(max)[i])
       \/ ByteAt(b, i) = ByteOf(U32BE(max)[i]) /\ BytesExceed(b, max, i + 1)

\* length > MAX_FRAME_SIZE, for the length the first four bytes of src give
PrefixTooLargeOrEqual(src) == BytesExceed(src, MaxFrameSize - 1, 1)

PrefixTooLarge(src) == BytesExceed(src, MaxFrameSize, 1)

\* json.len() as u32
AsU32(z) == z.lo

\* MessageCodec::encode returns Ok: the length it looks at is within MAX_FRAME_SIZE
EncodeAccepts(m) == ~(AsU32(JsonSize(m)) > MaxFrameSize)

\* MessageCodec::encode: the frame appended to dst
EncodeFrame(m) == U32BE(AsU32(JsonSize(m))) \o Serialize(m)

\* MessageCodec::decode on buffer src: "need" (Ok(None)), "too_large" (Err), or a frame
DecodeStatus(src) ==
    IF ~HasBytes(src, 4) THEN "need"
    ELSE IF PrefixTooLarge(src) THEN "too_large"
    ELSE IF ~HasBytes(src, 4 + FromBE(src)) THEN "need"
    ELSE "frame"

DecodePayload(src) == SplitTo(Advance(src, 4), FromBE(src))

DecodeRest(src) == Advance(Advance(src, 4), FromBE(src))

\* what MessageCodec::decode leaves in src
AfterDecodePrefixTaken(src) ==
    IF DecodeStatus(src) = "frame" THEN DecodeRest(src)
    ELSE IF HasBytes(src, 4) THEN Advance(src, 4)
    ELSE src

AfterDecode(src) == IF DecodeStatus(src) = "frame" THEN DecodeRest(src) ELSE src

\* the transport buffers one frame of the largest size
WireCap == 4 + MaxPayload

(***************************************************************************)
(* Connection (connection.rs).                                             *)
(***************************************************************************)
\* the mutant of TryConnect: an attempt that failed is taken for a connection
TryConnectAlwaysOk(reachable) == "ok"

\* Connection::try_connect: Ok with the child and both halves, or Err
TryConnect(reachable) == IF reachable THEN "ok" ELSE "err"

\* Connection::is_healthy: read_lock.is_some()
IsHealthy(fr, fw, wl) == fr # 0

Healthy == IsHealthy(frameRead, frameWrite, wlock)

\* the mutant of FlushComplete: send returns once the frame is in the buffer
FlushSkipped(buf) == TRUE

\* SinkExt::send = feed + flush: Ok once nothing of the buffer is left unwritten
FlushComplete(buf) == buf = <<>>

\* one turn of the loop of establish_connection
EstablishAttempt(reachable) ==
    /\ est.pc = "connecting"
    /\ IF TryConnect(reachable) = "ok"
       THEN /\ wlock = 0 /\ ~rlock
            /\ child' = 1 /\ frameRead' = 1 /\ frameWrite' = 1
            /\ link' = IF reachable THEN "up" ELSE "closed"
            /\ wbuf' = <<>> /\ wire' = <<>> /\ inq' = <<>>
            /\ est' = [pc |-> "ok", attempt |-> est.attempt, built |-> TRUE]
       ELSE /\ est' = IF est.attempt < ReconnectAttempts - 1
                      THEN [est EXCEPT !.pc = "sleeping"]
                      ELSE [est EXCEPT !.pc = IF est.built THEN "ok" ELSE "failed"]
            /\ UNCHANGED <<child, frameRead, frameWrite, link, wbuf, wire, inq>>
    /\ lastOp' = IF reachable THEN "connect_ok" ELSE "connect_failed"
    /\ UNCHANGED <<wlock, rlock, snd, peerGot, peerBad>>

\* the backoff sleep between two attempts is over
BackoffElapsed ==
    /\ est.pc = "sleeping"
    /\ est' = [est EXCEPT !.pc = "connecting", !.attempt = @ + 1]
    /\ lastOp' = "op"
    /\ UNCHANGED <<child, frameRead, frameWrite, link, wlock, rlock, wbuf, wire, snd,
                   peerGot, peerBad, inq>>

RECURSIVE SendCalls(_)
\* history: the calls of send made so far by senders 1..t
SendCalls(t) == IF t = 0 THEN 0 ELSE snd[t].k + SendCalls(t - 1)

\* Connection::send, up to the first await of the sink: the write lock is taken
\* and the frame encoded into the buffer; Err at once without a writer
SendBegin(t) ==
    /\ est.built
    /\ snd[t].pc = "idle"
    /\ SendCalls(NumSenders) < MaxSends
    /\ wlock = 0
    /\ IF frameWrite # 0
       THEN /\ wlock' = t
            /\ wbuf' = wbuf \o EncodeFrame(Msg(t, snd[t].k + 1))
            /\ snd' = [snd EXCEPT ![t].pc = "flushing", ![t].k = @ + 1]
            /\ lastOp' = "op"
       ELSE /\ snd' = [snd EXCEPT ![t].k = @ + 1]
            /\ lastOp' = "send_err"
            /\ UNCHANGED <<wlock, wbuf>>
    /\ UNCHANGED <<est, child, frameRead, frameWrite, link, rlock, wire, peerGot, peerBad, inq>>

\* poll_flush writes some of the buffer to the transport
SendWrite(t, n) ==
    /\ wlock = t
    /\ link = "up"
    /\ n \in 1..Len(wbuf)
    /\ Len(wire) + n <= WireCap
    /\ wire' = wire \o SubSeq(wbuf, 1, n)
    /\ wbuf' = SubSeq(wbuf, n + 1, Len(wbuf))
    /\ lastOp' = "op"
    /\ UNCHANGED <<est, child, frameRead, frameWrite, link, wlock, rlock, snd, peerGot,
                   peerBad, inq>>

\* send returns Ok
SendOk(t) ==
    /\ wlock = t
    /\ FlushComplete(wbuf)
    /\ wlock' = 0
    /\ snd' = [snd EXCEPT ![t].pc = "idle", ![t].acked = @ + 1]
    /\ lastOp' = "op"
    /\ UNCHANGED <<est, child, frameRead, frameWrite, link, rlock, wbuf, wire, peerGot,
                   peerBad, inq>>

\* a write on the broken transport fails: send returns Err
SendErr(t) ==
    /\ wlock = t
    /\ wbuf # <<>>
    /\ link = "closed"
    /\ wlock' = 0
    /\ snd' = [snd EXCEPT ![t].pc = "idle"]
    /\ lastOp' = "send_err"
    /\ UNCHANGED <<est, child, frameRead, frameWrite, link, rlock, wbuf, wire, peerGot,
                   peerBad, inq>>

\* Connection::recv, up to the await of the stream: the read half's lock is taken
RecvBegin ==
    /\ est.built
    /\ ~rlock
    /\ IF frameRead # 0
       THEN /\ rlock' = TRUE
            /\ lastOp' = "op"
       ELSE /\ lastOp' = "recv_err"
            /\ UNCHANGED rlock
    /\ UNCHANGED <<est, child, frameRead, frameWrite, link, wlock, wbuf, wire, snd,
                   peerGot, peerBad, inq>>

\* what reader.next() yields: the next frame, an error for a frame that does not
\* decode, None at end of stream; "pending" while the stream is open and empty
RecvResult ==
    IF inq # <<>> THEN (IF Head(inq).kind = "bad" THEN "recv_err" ELSE "op")
    ELSE IF link = "closed" THEN "recv_eof"
    ELSE "pending"

\* recv returns and releases the lock
RecvEnd ==
    /\ rlock
    /\ RecvResult # "pending"
    /\ rlock' = FALSE
    /\ inq' = IF inq # <<>> THEN Tail(inq) ELSE inq
    /\ lastOp' = RecvResult
    /\ UNCHANGED <<est, child, frameRead, frameWrite, link, wlock, wbuf, wire, snd,
                   peerGot, peerBad>>

\* Connection::is_healthy, which waits for the read half's lock
CallIsHealthy ==
    /\ est.built
    /\ ~rlock
    /\ lastOp' = "op"
    /\ UNCHANGED connVars

\* Connection::reconnect_if_needed
ReconnectIfNeeded ==
    /\ est.built
    /\ ~rlock
    /\ est.pc = "ok"
    /\ est' = IF Healthy THEN est ELSE [est EXCEPT !.pc = "connecting", !.attempt = 0]
    /\ lastOp' = "op"
    /\ UNCHANGED <<child, frameRead, frameWrite, link, wlock, rlock, wbuf, wire, snd,
                   peerGot, peerBad, inq>>

\* Connection::kill: the child is taken and killed, which closes its pipes
Kill ==
    /\ est.built
    /\ child' = 0
    /\ link' = IF child # 0 THEN "closed" ELSE link
    /\ lastOp' = "kill"
    /\ UNCHANGED <<est, frameRead, frameWrite, wlock, rlock, wbuf, wire, snd, peerGot,
                   peerBad, inq>>

\* the peer's FramedRead decodes the next frame off the transport
PeerDecode ==
    /\ link = "up"
    /\ DecodeStatus(wire) # "need"
    /\ IF DecodeStatus(wire) = "frame"
       THEN LET m == Deserialize(DecodePayload(wire))
            IN  /\ wire' = DecodeRest(wire)
                /\ IF m = Invalid
                   THEN peerBad' = TRUE /\ UNCHANGED peerGot
                   ELSE /\ peerBad' = (peerBad \/ m.k # peerGot[m.from] + 1)
                        /\ peerGot' = [peerGot EXCEPT ![m.from] = m.k]
       ELSE /\ peerBad' = TRUE
            /\ wire' = <<>>
            /\ UNCHANGED peerGot
    /\ lastOp' = "op"
    /\ UNCHANGED <<est, child, frameRead, frameWrite, link, wlock, rlock, wbuf, snd, inq>>

\* the peer writes a frame: a message, or bytes that do not decode to one
PeerSend(kind) ==
    /\ link = "up"
    /\ Len(inq) < MaxInbound
    /\ inq' = Append(inq, [kind |-> kind, id |-> NoId, n |-> 0])
    /\ lastOp' = "op"
    /\ UNCHANGED <<est, child, frameRead, frameWrite, link, wlock, rlock, wbuf, wire, snd,
                   peerGot, peerBad>>

\* the peer goes away or the transport breaks
PeerClose ==
    /\ link = "up"
    /\ link' = "closed"
    /\ lastOp' = "op"
    /\ UNCHANGED <<est, child, frameRead, frameWrite, wlock, rlock, wbuf, wire, snd,
                   peerGot, peerBad, inq>>

\* a Multiplexer that takes no part in the run
MuxIdle ==
    /\ waiters = <<>>
    /\ channels = <<>>
    /\ hr = NoMsg
    /\ nHandled = 0

\* Connection::connect_with_config, before its call of establish_connection
InitConn ==
    /\ est = [pc |-> "connecting", attempt |-> 0, built |-> FALSE]
    /\ child = 0 /\ frameRead = 0 /\ frameWrite = 0
    /\ link = "none"
    /\ wlock = 0 /\ rlock = FALSE
    /\ wbuf = <<>> /\ wire = <<>>
    /\ snd = [t \in Senders |-> [pc |-> "idle", k |-> 0, acked |-> 0]]
    /\ peerGot = [t \in Senders |-> 0]
    /\ peerBad = FALSE
    /\ inq = <<>>
    /\ lastOp = "new"
    /\ MuxIdle
    /\ AgentIdle
    /\ ServerIdle

NextConn ==
    \/ \E reachable \in BOOLEAN : EstablishAttempt(reachable) /\ UNCHANGED <<muxVars, agentVars, serverVars>>
    \/ BackoffElapsed /\ UNCHANGED <<muxVars, agentVars, serverVars>>
    \/ \E t \in Senders : SendBegin(t) /\ UNCHANGED <<muxVars, agentVars, serverVars>>
    \/ \E t \in Senders, n \in 1..(4 + MaxPayload) : SendWrite(t, n) /\ UNCHANGED <<muxVars, agentVars, serverVars>>
    \/ \E t \in Senders : SendOk(t) /\ UNCHANGED <<muxVars, agentVars, serverVars>>
    \/ \E t \in Senders : SendErr(t) /\ UNCHANGED <<muxVars, agentVars, serverVars>>
    \/ RecvBegin /\ UNCHANGED <<muxVars, agentVars, serverVars>>
    \/ RecvEnd /\ UNCHANGED <<muxVars, agentVars, serverVars>>
    \/ CallIsHealthy /\ UNCHANGED <<muxVars, agentVars, serverVars>>
    \/ ReconnectIfNeeded /\ UNCHANGED <<muxVars, agentVars, serverVars>>
    \/ Kill /\ UNCHANGED <<muxVars, agentVars, serverVars>>
    \/ PeerDecode /\ UNCHANGED <<muxVars, agentVars, serverVars>>
    \/ \E kind \in {"SseEvent", "bad"} : PeerSend(kind) /\ UNCHANGED <<muxVars, agentVars, serverVars>>
    \/ PeerClose /\ UNCHANGED <<muxVars, agentVars, serverVars>>

SpecConn == InitConn /\ [][NextConn]_vars

(***************************************************************************)
(* The agent (main.rs): the reader task, the keepalive monitor, the        *)
(* ingress handlers of cli_handler.rs and http_proxy.rs, the shutdown      *)
(* path, and the server at the other end of the transport.  A send is one  *)
(* step here: the frame as a whole, as Connection::send delivers it.       *)
(***************************************************************************)
Running == sd # "exited"

\* the connection state no task of the agent touches outside a reconnect
connRest == <<wlock, wbuf, wire, snd, peerGot, peerBad>>

\* request h comes in on the CLI socket (odd) or on the HTTP proxy (even)
HandlerKind(h) == IF h % 2 = 1 THEN "cli" ELSE "http"

\* the mutant of RemovesWaiter: the deadline path returns without remove_waiter
RemovesWaiterButOnTimeout(kind, out) == kind = "cli" /\ out # "timeout"

\* whether the handler calls remove_waiter before it returns with outcome out:
\* handle_client on every path, the handlers of http_proxy.rs on none
RemovesWaiter(kind, out) == kind = "cli"

\* reader task: the is_healthy check at the top of the loop, then recv() or
\* cleanup_on_disconnect and the wait for the notifier
ReaderCheck ==
    /\ Running
    /\ rd.pc \in {"check", "cleanup"}
    /\ IF rd.pc = "cleanup"
       THEN /\ CleanupOnDisconnect
            /\ rd' = [pc |-> "wait", failed |-> FALSE]
            /\ UNCHANGED rlock
       ELSE IF Healthy
       THEN /\ rlock' = TRUE
            /\ rd' = [rd EXCEPT !.pc = "recv"]
            /\ UNCHANGED muxVars
       ELSE /\ rd' = [rd EXCEPT !.pc = "cleanup"]
            /\ UNCHANGED <<muxVars, rlock>>
    /\ UNCHANGED <<lastOp, est, child, frameRead, frameWrite, link, inq, connRest, hs, srvIn, sd>>

\* reader task: recv() returns; a Pong is dropped, any other message goes to
\* handle_response, Ok(None) and Err lead back to the top of the loop; and a
\* handle_response that waited for room in a channel returns
ReaderRecv ==
    /\ Running
    /\ rd.pc \in {"recv", "handle"}
    /\ rd.pc = "recv" => RecvResult # "pending"
    /\ rlock' = FALSE
    /\ inq' = IF rd.pc = "recv" /\ inq # <<>> THEN Tail(inq) ELSE inq
    /\ IF rd.pc = "handle"
       THEN /\ HandleResponseResume
            /\ rd' = [rd EXCEPT !.pc = "check"]
       ELSE IF RecvResult = "op"
       THEN IF Head(inq).kind = "Pong"
            THEN /\ rd' = [rd EXCEPT !.pc = "check"]
                 /\ UNCHANGED muxVars
            ELSE /\ HandleResponse(Head(inq))
                 /\ rd' = [rd EXCEPT !.pc = IF hr' = NoMsg THEN "check" ELSE "handle"]
       ELSE /\ rd' = [pc |-> "check", failed |-> TRUE]
            /\ UNCHANGED muxVars
    /\ UNCHANGED <<lastOp, est, child, frameRead, frameWrite, link, connRest, hs, srvIn, sd>>

\* Connection::wait_for_reconnect returning: the notifier keeps no state, it wakes
\* the reader only if the reader is waiting when it fires
Notified(r) == IF r.pc = "wait" THEN [r EXCEPT !.pc = "check"] ELSE r

\* keepalive monitor, one turn of its loop after the sleep: reconnect_if_needed on
\* an unhealthy connection, otherwise a Ping
MonitorTick ==
    /\ Running
    /\ ~rlock
    /\ IF ~Healthy
       THEN \E reachable \in BOOLEAN :
               IF TryConnect(reachable) = "ok"
               THEN /\ child' = 1 /\ frameRead' = 1 /\ frameWrite' = 1
                    /\ link' = "up"
                    /\ inq' = <<>>
                    /\ srvIn' = {}
                    /\ rd' = Notified(rd)
               ELSE UNCHANGED <<child, frameRead, frameWrite, link, inq, srvIn, rd>>
       ELSE /\ srvIn' = IF link = "up" THEN srvIn \cup {NoId} ELSE srvIn
            /\ UNCHANGED <<child, frameRead, frameWrite, link, inq, rd>>
    /\ UNCHANGED <<lastOp, muxVars, est, rlock, connRest, hs, sd>>

\* handle_client / handle_rpc: register_waiter under the request's id
HandlerRegister(h) ==
    /\ Running
    /\ hs[h].pc = "idle"
    /\ RegisterWaiter(h)
    /\ hs' = [hs EXCEPT ![h] = [pc |-> "send", ch |-> Len(channels) + 1, out |-> "none"]]
    /\ UNCHANGED <<lastOp, connVars, rd, srvIn, sd>>

\* where a handler goes with outcome out: to its remove_waiter call, or straight to
\* its return, which drops the receiver
Leave(h, out, chs) ==
    IF RemovesWaiter(HandlerKind(h), out)
    THEN /\ hs' = [hs EXCEPT ![h].pc = "removing", ![h].out = out]
         /\ channels' = chs
    ELSE /\ hs' = [hs EXCEPT ![h].pc = "done", ![h].out = out]
         /\ channels' = [chs EXCEPT ![hs[h].ch] = DropRx(@)]

\* the handler's connection.send(request)
HandlerSend(h) ==
    /\ Running
    /\ hs[h].pc = "send"
    /\ IF link = "up" /\ frameWrite # 0
       THEN /\ srvIn' = srvIn \cup {h}
            /\ hs' = [hs EXCEPT ![h].pc = "await"]
            /\ UNCHANGED channels
       ELSE /\ Leave(h, "send_error", channels)
            /\ UNCHANGED srvIn
    /\ UNCHANGED <<lastOp, waiters, hr, nHandled, connVars, rd, sd>>

\* the outcome of timeout(.., rx.recv()) when the receiver has something to return
Received(h) ==
    LET ch == channels[hs[h].ch]
    IN  IF ch.buf = <<>> THEN "closed"
        ELSE IF HandlerKind(h) = "http" /\ Head(ch.buf).kind # "HttpResponse" THEN "wrong_type"
        ELSE "response"

\* the handler's wait ends: with the first message, with None, or at the deadline
HandlerAwait(h, expired) ==
    /\ Running
    /\ hs[h].pc = "await"
    /\ IF expired
       THEN Leave(h, "timeout", channels)
       ELSE LET c == hs[h].ch
            IN  /\ channels[c].buf # <<>> \/ ~channels[c].tx
                /\ Leave(h, Received(h),
                         IF channels[c].buf # <<>>
                         THEN [channels EXCEPT ![c].got = Head(channels[c].buf).n,
                                               ![c].buf = Tail(@)]
                         ELSE [channels EXCEPT ![c].eof = TRUE])
    /\ UNCHANGED <<lastOp, waiters, hr, nHandled, connVars, rd, srvIn, sd>>

\* handle_client: remove_waiter(&id), then the return
HandlerRemove(h) ==
    /\ Running
    /\ hs[h].pc = "removing"
    /\ ~MuxLocked
    /\ waiters' = IF h \in DOMAIN waiters THEN Without(waiters, h) ELSE waiters
    /\ channels' = [channels EXCEPT ![hs[h].ch] =
                       DropRx(IF h \in DOMAIN waiters /\ waiters[h] = hs[h].ch
                              THEN DropSender(@) ELSE @)]
    /\ hs' = [hs EXCEPT ![h].pc = "done"]
    /\ UNCHANGED <<lastOp, hr, nHandled, connVars, rd, srvIn, sd>>

\* the server answers: a Pong for a Ping, its response for a request
ServerReply(x) ==
    /\ Running
    /\ x \in srvIn
    /\ link = "up"
    /\ Len(inq) < MaxInbound
    /\ inq' = Append(inq,
                [kind |-> IF x = NoId THEN "Pong"
                          ELSE IF HandlerKind(x) = "cli" THEN "CliResponse" ELSE "HttpResponse",
                 id |-> x, n |-> 0])
    /\ srvIn' = srvIn \ {x}
    /\ UNCHANGED <<lastOp, muxVars, est, child, frameRead, frameWrite, link, rlock, connRest, rd, hs, sd>>

\* the server goes away or the transport breaks
TransportBreak ==
    /\ Running
    /\ link = "up"
    /\ link' = "closed"
    /\ srvIn' = {}
    /\ UNCHANGED <<lastOp, muxVars, est, child, frameRead, frameWrite, inq, rlock, connRest, rd, hs, sd>>

\* the signals main waits for in its select
Signals == {"SIGINT", "SIGTERM", "SIGHUP"}

\* a signal arrives and the select of main completes with the signal's branch, which
\* logs a line
AgentSignal(sig) ==
    /\ sd = "run"
    /\ sd' = sig
    /\ UNCHANGED <<lastOp, muxVars, connVars, rd, hs, srvIn>>

\* main after the select: multiplexer.clear()
ShutdownClear ==
    /\ sd \in Signals
    /\ Clear
    /\ sd' = "cleared"
    /\ UNCHANGED <<lastOp, connVars, rd, hs, srvIn>>

\* main after a signal: connection.kill(), then main returns and every task ends
ShutdownKill ==
    /\ sd = "cleared"
    /\ child' = 0
    /\ link' = IF child # 0 THEN "closed" ELSE link
    /\ sd' = "exited"
    /\ UNCHANGED <<lastOp, muxVars, est, frameRead, frameWrite, inq, rlock, connRest, rd, hs, srvIn>>

\* main with the connection established and the Multiplexer created
Init ==
    /\ waiters = <<>>
    /\ channels = <<>>
    /\ hr = NoMsg
    /\ nHandled = 0
    /\ lastOp = "new"
    /\ ConnIdle
    /\ AgentIdle
    /\ ServerIdle

Next ==
    \/ ReaderCheck /\ UNCHANGED serverVars
    \/ ReaderRecv /\ UNCHANGED serverVars
    \/ MonitorTick /\ UNCHANGED serverVars
    \/ \E h \in Ids : HandlerRegister(h) /\ UNCHANGED serverVars
    \/ \E h \in Ids : HandlerSend(h) /\ UNCHANGED serverVars
    \/ \E h \in Ids, expired \in BOOLEAN : HandlerAwait(h, expired) /\ UNCHANGED serverVars
    \/ \E h \in Ids : HandlerRemove(h) /\ UNCHANGED serverVars
    \/ \E x \in Ids \cup {NoId} : ServerReply(x) /\ UNCHANGED serverVars
    \/ TransportBreak /\ UNCHANGED serverVars
    \/ \E sig \in Signals : AgentSignal(sig) /\ UNCHANGED serverVars
    \/ ShutdownClear /\ UNCHANGED serverVars
    \/ ShutdownKill /\ UNCHANGED serverVars

Spec == Init /\ [][Next]_vars

\* the tokio runtime keeps running every task that can take a step; the monitor's
\* sleep ends, and the RwLock queues its waiters, so that the monitor gets the read
\* half's lock between two calls of recv
FairSpec ==
    /\ Spec
    /\ WF_vars(ReaderCheck /\ UNCHANGED serverVars)
    /\ WF_vars(ReaderRecv /\ UNCHANGED serverVars)
    /\ SF_vars(MonitorTick /\ UNCHANGED serverVars)


(***************************************************************************)
(* Multiplexer claims (checked under SpecMux).                             *)
(***************************************************************************)
\* r is registered with channel c when message m is handled
RegisteredFor(m, c) ==
    /\ m.id # NoId
    /\ m.id \in DOMAIN waiters
    /\ waiters[m.id] = c

\* the messages a handle_response call can be made with, or can be suspended with
Handled == Inputs(nHandled + 1) \cup ({hr} \ {NoMsg})

\* this step is a handle_response(m) call returning: at once, or after its wait
Completes(m) ==
    \/ HandleResponse(m) /\ hr' = NoMsg
    \/ hr = m /\ HandleResponseResume

C4_PerIdOrder ==
    \A c \in ChanIdx :
       LET b == channels[c].buf
       IN  /\ \A i \in 1..Len(b) : b[i].id = channels[c].id /\ b[i].n \in 1..nHandled
           /\ \A i \in 1..Len(b) : channels[c].got < b[i].n
           /\ \A i, j \in 1..Len(b) : i < j => b[i].n < b[j].n

\* C4 witness: two messages of an id are buffered for its receiver, with a message
\* of another id handled between the two
C4_Witness ==
    \E c \in ChanIdx :
       /\ channels[c].rx
       /\ Len(channels[c].buf) = 2
       /\ channels[c].buf[1].n = 1
       /\ channels[c].buf[2].n = 3

\* C5: right after cleanup_on_disconnect() or clear() the waiter table is empty and
\* no channel has a Sender left; a Sender once dropped never comes back; and a
\* receiver is told None only when nothing is buffered for it and its Sender is gone
C5_ClosedAfterCleanup ==
    /\ [](/\ lastOp \in {"cleanup_on_disconnect", "clear"} =>
               /\ PendingCount = 0
               /\ \A c \in ChanIdx : ~channels[c].tx
          /\ \A c \in ChanIdx : channels[c].eof => channels[c].buf = <<>> /\ ~channels[c].tx)
    /\ [][\A c \in ChanIdx : ~channels[c].tx => ~channels'[c].tx]_vars
    /\ [][\A c \in ChanIdx :
             Recv(c) =>
                IF channels[c].buf # <<>>
                THEN channels'[c].got = Head(channels[c].buf).n /\ ~channels'[c].eof
                ELSE channels'[c].eof]_vars

\* C5 witness: cleanup_on_disconnect has just run while a live receiver still had
\* a message buffered
C5_Witness ==
    /\ lastOp = "cleanup_on_disconnect"
    /\ \E c \in ChanIdx : channels[c].rx /\ channels[c].buf # <<>> /\ ~channels[c].tx

\* C5 witness, second half: a receiver drained its buffer and then saw None
C5_DrainedThenClosed ==
    \E c \in ChanIdx : channels[c].eof /\ channels[c].got > 0

(***************************************************************************)
(* Connection claims (checked under SpecConn).                             *)
(***************************************************************************)
\* C8: is_healthy goes from true to false only in a send or recv that failed or in
\* kill, and from false to true only in a connect attempt that succeeded; a step of
\* any other operation, a failed connect attempt included, leaves it as it was
C8_FlagTransitions ==
    [][/\ (Healthy /\ ~Healthy') => lastOp' \in {"send_err", "recv_err", "kill"}
       /\ (~Healthy /\ Healthy') => lastOp' = "connect_ok"
       /\ lastOp' \in {"op", "connect_failed"} => (Healthy' <=> Healthy)]_vars

\* C8 witness: the connection stayed unhealthy over a failed connect attempt and
\* became healthy in the attempt that succeeded
C8_Witness ==
    /\ lastOp = "connect_ok"
    /\ est.attempt > 0
    /\ Healthy

\* C9 as stated: when send has just returned Err, or recv Err or None, is_healthy()
\* is false
C9_UnhealthyAfterError ==
    lastOp \in {"send_err", "recv_err", "recv_eof"} => ~Healthy

RECURSIVE Frames(_)
\* the messages of the complete frames at the front of src, as the peer will decode them
Frames(src) ==
    IF DecodeStatus(src) = "frame"
    THEN <<Deserialize(DecodePayload(src))>> \o Frames(DecodeRest(src))
    ELSE <<>>

\* C10: every frame the peer decoded, or will decode from what is on the wire, is a
\* message that was sent, whole; the messages of a sender come in its send order,
\* none left out; and every send that returned Ok has its whole frame on the wire
\* or decoded
C10_WholeFramesInOrder ==
    /\ ~peerBad
    /\ \A i \in 1..Len(Frames(wire)) : Frames(wire)[i] # Invalid
    /\ \A t \in Senders :
          LET mine == SelectSeq(Frames(wire), LAMBDA m : m.from = t)
          IN  /\ \A i \in 1..Len(mine) : mine[i].k = peerGot[t] + i
              /\ peerGot[t] + Len(mine) <= snd[t].k
              /\ snd[t].acked <= peerGot[t] + Len(mine)

\* C10 witness: two senders took turns, each send returned Ok, and the peer decoded
\* the two messages of one and the message of the other
C10_Witness ==
    \E t, u \in Senders :
       /\ t # u
       /\ snd[t].acked = 2 /\ peerGot[t] = 2
       /\ snd[u].acked = 1 /\ peerGot[u] = 1

(***************************************************************************)
(* Agent claims (checked under Spec, C7 under FairSpec).                   *)
(***************************************************************************)
\* C2: when handle_client has returned for request h, whatever way it ended, h is
\* not in the waiter table and the Sender of h's channel is gone
C2_CliWaiterRemoved ==
    \A h \in Ids :
       (HandlerKind(h) = "cli" /\ hs[h].pc = "done") =>
          /\ h \notin DOMAIN waiters
          /\ ~channels[hs[h].ch].tx
          /\ hs[h].out \in {"send_error", "response", "closed", "timeout"}

\* C2 witness: a handle_client call that was still waiting when its deadline
\* expired has returned, while the other request's waiter is still registered
C2_Witness ==
    \E h \in Ids :
       /\ HandlerKind(h) = "cli"
       /\ hs[h].pc = "done"
       /\ hs[h].out = "timeout"
       /\ PendingCount > 0

\* C3 as stated: when a handler of the HTTP proxy has returned for request h, h
\* is not in the waiter table
C3_HttpWaiterRemoved ==
    \A h \in Ids :
       (HandlerKind(h) = "http" /\ hs[h].pc = "done") => h \notin DOMAIN waiters

\* C6 as stated, its first step: with a request outstanding and the transport
\* broken, once recv has returned None or Err the reader does not call recv again
\* before it has run cleanup_on_disconnect
C6_CleanupBeforeNextRecv ==
    ~(/\ link = "closed"
      /\ rd.failed
      /\ rd.pc = "recv"
      /\ \E h \in Ids : hs[h].pc = "await")

\* C7 as stated: after a disconnect the connection is re-established and the reader
\* is back in recv on it (unless the agent is shut down first)
C7_ReaderResumes ==
    (link = "closed" /\ sd = "run") ~> ((link = "up" /\ rd.pc = "recv") \/ sd # "run")

(***************************************************************************)
(* The rate limiter (rate_limiter.rs).  check_request is taken apart into  *)
(* the steps it makes while it holds the write lock of the windows map, so *)
(* that what the lock excludes can be seen; the clock may advance between  *)
(* any two of them.  Timestamps are u64: a sum beyond u64::MAX wraps       *)
(* around in a build without overflow checks and panics in one with them.  *)
(***************************************************************************)
\* the window lengths of a run: none, one second, and the longest there is
WindowSecs == {0, 1, MaxU64}

\* RateLimitWindow::new
NewWindow(max_requests, window_secs) ==
    [requests |-> 0, window_start |-> now,
     max_requests |-> max_requests, window_secs |-> window_secs]

\* u64 addition without overflow checks
WrappingAdd(a, b) == (a + b) % (MaxU64 + 1)

\* RateLimitWindow::is_expired, in a build without overflow checks
IsExpired(w) == now >= WrappingAdd(w.window_start, w.window_secs)

\* the window's time span [window_start, window_start + window_secs) is over
Elapsed(w) == now >= w.window_start + w.window_secs

\* the write lock of the map can be taken: nobody holds it
MayAcquireAlways(holder) == TRUE

MayAcquire(holder) == holder = 0

\* the guard of the write lock is dropped
Release(c) == mapLock' = IF mapLock = c THEN 0 ELSE mapLock

\* the window or_insert_with makes for a tool that has none
DefaultWindowUnlimited ==
    NewWindow(MaxLimit, limiter.default_window_secs)

DefaultWindow ==
    NewWindow(limiter.default_max_requests, limiter.default_window_secs)

\* RateLimiter::set_limit, called while the limiter is set up (before any check_request);
\* one tool gets an override in a run
SetLimit(t, max_requests, window_secs) ==
    /\ rlh.calls = 0
    /\ rlh.sets = 0
    /\ mapLock = 0
    /\ windows' = [windows EXCEPT ![t] = NewWindow(max_requests, window_secs)]
    /\ rlh' = [rlh EXCEPT !.sets = @ + 1,
                          !.tool[t] = [NoHistory EXCEPT
                                !.ovr = [max |-> max_requests, secs |-> window_secs,
                                         set |-> TRUE],
                                !.created = rlh.tool[t].created]]
    /\ UNCHANGED <<limiter, now, mapLock, ck>>

\* a task calls check_request(t) and waits for the write lock of the map
Call(c, t) ==
    /\ ck[c].pc = "idle"
    /\ rlh.calls < MaxChecks
    /\ ck' = [ck EXCEPT ![c] = [CallerIdle EXCEPT !.pc = "write", !.tool = t]]
    /\ rlh' = [rlh EXCEPT !.calls = @ + 1]
    /\ UNCHANGED <<limiter, windows, now, mapLock>>

\* check_request: self.windows.write().await returns the guard
Acquire(c) ==
    /\ ck[c].pc = "write"
    /\ MayAcquire(mapLock)
    /\ mapLock' = c
    /\ ck' = [ck EXCEPT ![c].pc = "entry"]
    /\ UNCHANGED <<limiter, windows, now, rlh>>

\* check_request: windows.entry(tool) looks the tool up
Lookup(c) ==
    /\ ck[c].pc = "entry"
    /\ ck' = [ck EXCEPT ![c].pc = IF windows[ck[c].tool] = NoWindow
                                    THEN "insert" ELSE "is_expired"]
    /\ UNCHANGED <<limiter, windows, now, mapLock, rlh>>

\* check_request: or_insert_with(..) puts the default window into the vacant entry
Insert(c) ==
    /\ ck[c].pc = "insert"
    /\ windows' = [windows EXCEPT ![ck[c].tool] = DefaultWindow]
    /\ rlh' = [rlh EXCEPT !.tool[ck[c].tool].created = @ + 1]
    /\ ck' = [ck EXCEPT ![c].pc = "is_expired"]
    /\ UNCHANGED <<limiter, now, mapLock>>

\* reset_if_needed: the call of is_expired.  panics: the build checks overflow and the
\* sum overflows, so that the task unwinds (dropping the guard) and the call returns nothing
CheckExpired(c, panics) ==
    /\ ck[c].pc = "is_expired"
    /\ LET w == windows[ck[c].tool] IN
         /\ panics => w.window_start + w.window_secs > MaxU64
         /\ IF panics
              THEN /\ ck' = [ck EXCEPT ![c] = CallerIdle]
                   /\ Release(c)
              ELSE /\ ck' = [ck EXCEPT ![c].pc = IF IsExpired(w) THEN "reset" ELSE "count",
                                       ![c].exp = Elapsed(w)]
                   /\ UNCHANGED mapLock
    /\ UNCHANGED <<limiter, windows, now, rlh>>

\* reset_if_needed: requests = 0; window_start = current_timestamp()
Reset(c) ==
    /\ ck[c].pc = "reset"
    /\ LET t == ck[c].tool IN
         /\ windows' = [windows EXCEPT ![t].requests = 0, ![t].window_start = now]
         /\ rlh' = [rlh EXCEPT !.tool[t].since = 0]
    /\ ck' = [ck EXCEPT ![c].pc = "count", ![c].reset = TRUE]
    /\ UNCHANGED <<limiter, now, mapLock>>

\* check_and_increment's test
Admits(w) == w.requests < w.max_requests

\* the admissions the history knows in the time span of window w, one more made now
AdmittedInSpan(h, w) ==
    IF ~Elapsed(w)
      THEN [h EXCEPT !.ws = w.window_start,
                     !.n = IF h.ws = w.window_start THEN h.n + 1 ELSE 1,
                     !.since = @ + 1]
      ELSE [h EXCEPT !.since = @ + 1]

\* check_and_increment after reset_if_needed, and the return of check_request
Count(c) ==
    /\ ck[c].pc = "count"
    /\ LET t == ck[c].tool
           w == windows[t]
       IN IF Admits(w)
            THEN /\ windows' = [windows EXCEPT ![t].requests = @ + 1]
                 /\ rlh' = [rlh EXCEPT !.tool[t] = AdmittedInSpan(@, w)]
            ELSE UNCHANGED <<windows, rlh>>
    /\ ck' = [ck EXCEPT ![c] = CallerIdle]
    /\ Release(c)
    /\ UNCHANGED <<limiter, now>>

\* the clock advances
Tick ==
    /\ now < MaxTime
    /\ now' = now + 1
    /\ UNCHANGED <<limiter, windows, mapLock, ck, rlh>>

\* RateLimiter::new(max_requests, window_secs) with the values of the environment
InitRate ==
    /\ limiter \in [default_max_requests : 0..MaxLimit, default_window_secs : WindowSecs]
    /\ windows = [t \in RateTools |-> NoWindow]
    /\ now = 1
    /\ mapLock = 0
    /\ ck = [c \in Callers |-> CallerIdle]
    /\ rlh = [calls |-> 0, sets |-> 0, tool |-> [t \in RateTools |-> NoHistory]]
    /\ lastOp = "new"
    /\ MuxIdle
    /\ ConnIdle
    /\ AgentIdle
    /\ CodecIdle
    /\ ListenIdle
    /\ ServiceIdle

restOfRate == <<lastOp, muxVars, connVars, agentVars, codecVars, listenVars, serviceVars>>

NextRate ==
    \/ \E t \in RateTools, m \in 0..MaxLimit, s \in WindowSecs :
          SetLimit(t, m, s) /\ UNCHANGED restOfRate
    \/ \E c \in Callers, t \in RateTools : Call(c, t) /\ UNCHANGED restOfRate
    \/ \E c \in Callers : Acquire(c) /\ UNCHANGED restOfRate
    \/ \E c \in Callers : Lookup(c) /\ UNCHANGED restOfRate
    \/ \E c \in Callers : Insert(c) /\ UNCHANGED restOfRate
    \/ \E c \in Callers, panics \in BOOLEAN : CheckExpired(c, panics) /\ UNCHANGED restOfRate
    \/ \E c \in Callers : Reset(c) /\ UNCHANGED restOfRate
    \/ \E c \in Callers : Count(c) /\ UNCHANGED restOfRate
    \/ Tick /\ UNCHANGED restOfRate

SpecRate == InitRate /\ [][NextRate]_vars

(***************************************************************************)
(* The codec on its own (framing.rs): an encoder appends frames to dst,    *)
(* the bytes arrive in src piece by piece, a decoder is called on src at   *)
(* any time.  The peer may also write a length prefix of its own making.   *)
(***************************************************************************)
\* the JSON lengths of a run: 1, 100 MiB - 4, 100 MiB, 100 MiB + 1, 2^32 + 1 and
\* 2^32 + 100 MiB + 1
JsonSizes ==
    {Size(0, 1), Size(0, MaxFrameSize - 4), Size(0, MaxFrameSize),
     Size(0, MaxFrameSize + 1), Size(1, 1), Size(1, MaxFrameSize + 1)}

\* the messages of a run: one variant, with and without its optional field
CodecMsgs ==
    [variant : {"cli_request"}, id : {1}, stdin : {"None", "in"}, len : JsonSizes]

\* the length prefixes a peer makes up: 1, 100 MiB, 100 MiB + 1, and (-1i32) as u32
FedPrefixes ==
    {U32BE(1), U32BE(MaxFrameSize), U32BE(MaxFrameSize + 1),
     << [byte |-> 255], [byte |-> 255], [byte |-> 255], [byte |-> 255] >>}

\* z is more than 100 MiB
OverLimit(z) == z.hi > 0 \/ z.lo > MaxFrameSize

\* piece c put behind buffer buf: bytes of one JSON text that follow each other are
\* one run of bytes
Put(buf, c) ==
    IF /\ buf # <<>>
       /\ DOMAIN c = {"json", "off", "n"}
       /\ DOMAIN buf[Len(buf)] = {"json", "off", "n"}
       /\ buf[Len(buf)].json = c.json
       /\ buf[Len(buf)].n.hi = 0
       /\ buf[Len(buf)].off + buf[Len(buf)].n.lo = c.off
    THEN [buf EXCEPT ![Len(buf)].n = Size(c.n.hi, @.lo + c.n.lo)]
    ELSE Append(buf, c)

\* MessageCodec::encode(m, dst)
CodecEncode(m) ==
    /\ chist.frames < MaxFrames
    /\ IF EncodeAccepts(m)
         THEN /\ cwire' = cwire \o EncodeFrame(m)
              /\ cres' = [op |-> "encode", out |-> "ok", msg |-> m]
              /\ chist' = [chist EXCEPT !.frames = @ + 1,
                                        !.sent = Append(@, m),
                                        !.clean = @ /\ ~OverLimit(JsonSize(m))]
         ELSE /\ cwire' = cwire
              /\ cres' = [op |-> "encode", out |-> "err", msg |-> m]
              /\ chist' = [chist EXCEPT !.frames = @ + 1]
    /\ UNCHANGED cbuf

\* the peer writes four bytes of its own as a length prefix
Fabricate(p) ==
    /\ chist.frames < MaxFrames
    /\ cwire' = cwire \o p
    /\ chist' = [chist EXCEPT !.frames = @ + 1, !.clean = FALSE]
    /\ cres' = [op |-> "write", out |-> "ok", msg |-> Invalid]
    /\ UNCHANGED cbuf

\* the transport delivers the next piece, or the first byte alone of a longer JSON text
Arrive(whole) ==
    /\ cwire # <<>>
    /\ whole \/ (PieceSize(cwire[1]) # Size(0, 1) /\ cwire[1].off = 0)
    /\ IF whole
         THEN /\ cbuf' = Put(cbuf, cwire[1])
              /\ cwire' = Tail(cwire)
         ELSE /\ cbuf' = Put(cbuf, SplitTo(cwire, 1)[1])
              /\ cwire' = Advance(cwire, 1)
    /\ cres' = [op |-> "read", out |-> "ok", msg |-> Invalid]
    /\ UNCHANGED chist

\* MessageCodec::decode(src)
CodecDecode ==
    /\ cbuf' = AfterDecode(cbuf)
    /\ LET st == DecodeStatus(cbuf) IN
         IF st = "frame"
           THEN LET m == Deserialize(DecodePayload(cbuf)) IN
                /\ cres' = [op |-> "decode",
                            out |-> IF m = Invalid THEN "invalid" ELSE "msg", msg |-> m]
                /\ chist' = [chist EXCEPT !.sent = IF @ = <<>> THEN @ ELSE Tail(@)]
           ELSE /\ cres' = [op |-> "decode", out |-> st, msg |-> Invalid]
                /\ UNCHANGED chist
    /\ UNCHANGED cwire

InitCodec ==
    /\ cbuf = <<>>
    /\ cwire = <<>>
    /\ cres = [op |-> "new", out |-> "ok", msg |-> Invalid]
    /\ chist = [frames |-> 0, sent |-> <<>>, clean |-> TRUE]
    /\ lastOp = "new"
    /\ MuxIdle
    /\ ConnIdle
    /\ AgentIdle
    /\ RateIdle
    /\ ListenIdle
    /\ ServiceIdle

restOfCodec == <<lastOp, muxVars, connVars, agentVars, rateVars, listenVars, serviceVars>>

NextCodec ==
    \/ \E m \in CodecMsgs : CodecEncode(m) /\ UNCHANGED restOfCodec
    \/ \E p \in FedPrefixes : Fabricate(p) /\ UNCHANGED restOfCodec
    \/ \E whole \in BOOLEAN : Arrive(whole) /\ UNCHANGED restOfCodec
    \/ CodecDecode /\ UNCHANGED restOfCodec

SpecCodec == InitCodec /\ [][NextCodec]_vars

(***************************************************************************)
(* The server's listener (listener.rs): the read loop of one connection,   *)
(* the task that forwards SSE events, and the client at the other end.     *)
(* The loop handles one message at a time: it reads, dispatches, and       *)
(* writes the response before it reads again.  A write is send and flush   *)
(* under the writer's lock, one step.                                      *)
(***************************************************************************)
NoCur == [kind |-> "none"]

Ping(id, ts) == [kind |-> "Ping", id |-> id, ts |-> ts]

\* the Pong the loop builds for a Ping
PongWithoutTimestamp(ping) ==
    [kind |-> "Pong", id |-> ping.id, ts |-> 0, len |-> Size(0, 1)]

PongFor(ping) ==
    [kind |-> "Pong", id |-> ping.id, ts |-> ping.ts, len |-> Size(0, 1)]

\* Message::Error(ErrorMessage { id: Some(req.id), code, .. })
ErrorFor(req, code) ==
    [kind |-> "Error", id |-> req.id, code |-> code, len |-> Size(0, 1)]

\* the response of a dispatcher to req, its JSON of length len
ResponseFor(req, len) ==
    [kind |-> IF req.kind = "CliRequest" THEN "CliResponse" ELSE "HttpResponse",
     id |-> req.id, len |-> len]

\* the n-th event a streaming upstream yields for req
SseEventFor(req, n) ==
    [kind |-> "SseEvent", id |-> req.id, data |-> n, len |-> Size(0, 1)]

\* the k events of one stream, in the order the dispatcher sends them into the channel
SseEventsFor(req, k) == [n \in 1..k |-> SseEventFor(req, n)]

\* sse_event_rx.recv() yields the message that has been in the channel longest
SseRecvNewest(q) == q[Len(q)]
SseRecv(q) == Head(q)

\* the lengths of a response's JSON: 1 byte, and 100 MiB + 1
ResponseSizes == {Size(0, 1), Size(0, MaxFrameSize + 1)}

\* a frame within the size limit whose payload is not the JSON of a Message
Malformed(id) == [kind |-> "Malformed", id |-> id]

\* the timestamps a client puts into its Pings
PingTimestamps == {1, 2}

\* the messages a client sends as its next one, with id the next id
ClientMsgs(id) ==
    [kind : {"CliRequest", "HttpRequest"}, id : {id}, tool : RateTools]
        \cup {Ping(id, ts) : ts \in PingTimestamps}
        \cup {[kind |-> "Pong", id |-> id]}
        \cup {Malformed(id)}

IsRequest(m) == m.kind \in {"CliRequest", "HttpRequest"}

\* check_request in one step: the window it finds or makes, after reset_if_needed
WindowChecked(t) ==
    LET w == IF windows[t] = NoWindow THEN DefaultWindow ELSE windows[t]
    IN  IF IsExpired(w) THEN [w EXCEPT !.requests = 0, !.window_start = now] ELSE w

\* check_request(t) returns Ok
CheckAllows(t) == Admits(WindowChecked(t))

\* the map after check_request(t)
WindowsChecked(t) ==
    [windows EXCEPT ![t] = IF CheckAllows(t)
                             THEN [WindowChecked(t) EXCEPT !.requests = @ + 1]
                             ELSE WindowChecked(t)]

\* writer.send(m) returns Ok and the flush succeeds: the codec accepts m and stdout
\* takes the bytes
Written(m) == ls.up /\ EncodeAccepts(m)

\* frame_write.lock(), writer.send(m), writer.flush()
Write(m) == lout' = IF Written(m) THEN Append(lout, m) ELSE lout

\* the agent writes its next message to the connection
ClientSend(m) ==
    /\ ~ls.eof
    /\ lhist.sent < MaxClientMsgs
    /\ lin' = Append(lin, m)
    /\ lhist' = [lhist EXCEPT !.sent = @ + 1]
    /\ UNCHANGED <<lout, sseq, ls, windows>>

\* frame_read.next() yields Ok(msg), and a Ping is answered by the loop itself, or
\* it yields Err for a frame the codec cannot decode, which the loop logs
ListenRead ==
    /\ ls.pc = "read"
    /\ lin # <<>>
    /\ lin' = Tail(lin)
    /\ IF lin[1].kind = "Malformed"
       THEN /\ ls' = [ls EXCEPT !.pc = "errored"]
            /\ UNCHANGED lhist
       ELSE /\ ls' = IF lin[1].kind = "Ping"
                       THEN [ls EXCEPT !.pc = "pong", !.cur = PongFor(lin[1])]
                       ELSE [ls EXCEPT !.pc = "dispatch", !.cur = lin[1]]
            /\ lhist' = [lhist EXCEPT !.seen = Append(@, lin[1])]
    /\ UNCHANGED <<lout, sseq, windows>>

\* the agent closes its end of the connection
ClientClose ==
    /\ ~ls.eof
    /\ ls' = [ls EXCEPT !.eof = TRUE]
    /\ UNCHANGED <<lin, lout, sseq, lhist, windows>>

\* frame_read.next() yields None, at the end of the input or on the poll that follows
\* a decoder's Err (FramedRead ends its stream there), and listen returns Ok(())
ListenEnd ==
    /\ \/ ls.pc = "errored"
       \/ ls.pc = "read" /\ lin = <<>> /\ ls.eof
    /\ ls' = [ls EXCEPT !.pc = "ended"]
    /\ UNCHANGED <<lin, lout, sseq, lhist, windows>>

\* the Pong is sent and flushed (an error is logged), then `continue`
ListenPong ==
    /\ ls.pc = "pong"
    /\ Write(ls.cur)
    /\ ls' = [ls EXCEPT !.pc = "read", !.cur = NoCur]
    /\ UNCHANGED <<lin, sseq, lhist, windows>>

\* dispatch_message: rate limit, then the dispatcher, whose call ends with a response
\* of some length ("ok"), with an error ("err"), or, for an HTTP request to a streaming
\* endpoint, with None after its k events went to the SSE channel ("sse")
Dispatch(out, len, k) ==
    /\ ls.pc = "dispatch"
    /\ LET req == ls.cur IN
         IF IsRequest(req)
           THEN /\ out = "sse" => req.kind = "HttpRequest"
                /\ windows' = WindowsChecked(req.tool)
                /\ IF ~CheckAllows(req.tool)
                     THEN /\ ls' = [ls EXCEPT !.pc = "respond",
                                              !.cur = ErrorFor(req, "rate_limited")]
                          /\ lhist' = [lhist EXCEPT !.done[req.id] = "refused"]
                          /\ UNCHANGED sseq
                     ELSE CASE out = "ok" ->
                                 /\ ls' = [ls EXCEPT !.pc = "respond",
                                                     !.cur = ResponseFor(req, len)]
                                 /\ lhist' = [lhist EXCEPT !.done[req.id] = "ok"]
                                 /\ UNCHANGED sseq
                            [] out = "err" ->
                                 /\ ls' = [ls EXCEPT !.pc = "respond",
                                             !.cur = ErrorFor(req,
                                                 IF req.kind = "CliRequest"
                                                   THEN "cli_error" ELSE "http_error")]
                                 /\ lhist' = [lhist EXCEPT !.done[req.id] = "failed"]
                                 /\ UNCHANGED sseq
                            [] out = "sse" ->
                                 /\ ls' = [ls EXCEPT !.pc = "read", !.cur = NoCur]
                                 /\ lhist' = [lhist EXCEPT !.done[req.id] = "sse",
                                                           !.emitted[req.id] = k]
                                 /\ sseq' = sseq \o SseEventsFor(req, k)
           ELSE /\ ls' = [ls EXCEPT !.pc = "read", !.cur = NoCur]
                /\ UNCHANGED <<sseq, lhist, windows>>
    /\ UNCHANGED <<lin, lout>>

\* the response is sent and flushed (an error is logged), and the loop reads on
ListenRespond ==
    /\ ls.pc = "respond"
    /\ Write(ls.cur)
    /\ ls' = [ls EXCEPT !.pc = "read", !.cur = NoCur]
    /\ UNCHANGED <<lin, sseq, lhist, windows>>

\* the spawned task forwards one event, and ends when the write fails
Forward ==
    /\ ls.fwd
    /\ sseq # <<>>
    /\ Write(SseRecv(sseq))
    /\ sseq' = Tail(sseq)
    /\ ls' = [ls EXCEPT !.fwd = Written(SseRecv(sseq))]
    /\ UNCHANGED <<lin, lhist, windows>>

\* stdout stops taking bytes
StdoutBreak ==
    /\ ls.up
    /\ ls' = [ls EXCEPT !.up = FALSE]
    /\ UNCHANGED <<lin, lout, sseq, lhist, windows>>

\* Listener::listen before the first read, with RateLimiter::new(1, 1)
InitListen ==
    /\ lin = <<>>
    /\ lout = <<>>
    /\ sseq = <<>>
    /\ ls = [pc |-> "read", cur |-> NoCur, up |-> TRUE, fwd |-> TRUE, eof |-> FALSE]
    /\ lhist = [sent |-> 0, seen |-> <<>>, done |-> [r \in 1..MaxClientMsgs |-> "none"],
                emitted |-> [r \in 1..MaxClientMsgs |-> 0]]
    /\ lastOp = "new"
    /\ MuxIdle
    /\ ConnIdle
    /\ AgentIdle
    /\ RateIdle
    /\ CodecIdle
    /\ ServiceIdle

restOfListen ==
    <<lastOp, muxVars, connVars, agentVars, codecVars, limiter, now, mapLock, ck, rlh,
      serviceVars>>

NextListen ==
    \/ \E m \in ClientMsgs(lhist.sent + 1) : ClientSend(m) /\ UNCHANGED restOfListen
    \/ ListenRead /\ UNCHANGED restOfListen
    \/ ClientClose /\ UNCHANGED restOfListen
    \/ ListenEnd /\ UNCHANGED restOfListen
    \/ ListenPong /\ UNCHANGED restOfListen
    \/ /\ ls.pc = "dispatch"
       /\ \E out \in {"ok", "err", "sse"} :
             \E len \in IF out = "ok" THEN ResponseSizes ELSE {Size(0, 1)},
                k \in IF out = "sse" THEN {0, MaxEvents} ELSE {0} :
                Dispatch(out, len, k) /\ UNCHANGED restOfListen
    \/ ListenRespond /\ UNCHANGED restOfListen
    \/ Forward /\ UNCHANGED restOfListen
    \/ StdoutBreak /\ UNCHANGED restOfListen

SpecListen == InitListen /\ [][NextListen]_vars

(***************************************************************************)
(* Rate limiter claims (checked under SpecRate).                           *)
(***************************************************************************)
\* C12: for every tool and every window [window_start, window_start + window_secs),
\* at most max_requests calls of check_request made in that time span return allow,
\* whatever the calls and the advances of the clock
C12_AtMostMaxPerWindow ==
    \A t \in RateTools :
        windows[t] # NoWindow => rlh.tool[t].n <= windows[t].max_requests

\* C13: a tool's counter never decreases except by a window reset; a check_request made
\* when now >= window_start + window_secs resets the window before it counts, so that
\* with max_requests >= 1 it is admitted and leaves the counter at 1; a call made before
\* that never resets the window, and a denied call leaves the counter as it was
C13_CounterAndReset ==
    [][ /\ \A t \in RateTools :
              windows'[t].requests < windows[t].requests
                  => \E c \in Callers : Reset(c) /\ ck[c].tool = t /\ ck[c].exp
        /\ \A c \in Callers :
              Count(c) =>
                 LET t == ck[c].tool
                     w == windows[t]
                 IN /\ ck[c].exp => /\ ck[c].reset
                                    /\ w.max_requests >= 1 => windows'[t].requests = 1
                    /\ ~ck[c].exp => ~ck[c].reset
                    /\ ~Admits(w) => windows'[t] = w
      ]_vars

\* C14: look-up-or-create, reset-if-expired and increment of concurrent calls of
\* check_request happen in one critical section: at most one call is past the lock, no
\* tool gets two windows, no admission is lost from a window's counter, and the counter
\* never exceeds max_requests
C14_OneCriticalSection ==
    /\ Cardinality({c \in Callers : ck[c].pc \notin {"idle", "write"}}) <= 1
    /\ \A t \in RateTools :
          /\ rlh.tool[t].created <= 1
          /\ windows[t].requests = rlh.tool[t].since
          /\ windows[t].requests <= windows[t].max_requests

\* a call is about to count in a window that is used up while another task waits for
\* the lock with a call for the same tool
C14_Witness ==
    \E c, d \in Callers :
        /\ c # d
        /\ ck[c].pc = "count" /\ ck[d].pc = "write" /\ ck[c].tool = ck[d].tool
        /\ windows[ck[c].tool].requests = windows[ck[c].tool].max_requests
        /\ windows[ck[c].tool].max_requests >= 1

\* the limit that applies to a tool: its override where set_limit gave it one, the
\* limiter's default otherwise
LimitOf(t) ==
    IF rlh.tool[t].ovr.set
      THEN [max |-> rlh.tool[t].ovr.max, secs |-> rlh.tool[t].ovr.secs]
      ELSE [max |-> limiter.default_max_requests, secs |-> limiter.default_window_secs]

\* C15: check_request(t) and set_limit(t, ..) change only tool t's window; a call is
\* denied only when the admissions of its own tool have used up the limit that applies
\* to that tool, which is the tool's override if it has one and the default otherwise
C15_OnlyOwnWindow ==
    [][ /\ \A u \in RateTools :
              windows'[u] # windows[u] =>
                  \/ \E c \in Callers : ck[c].tool = u /\ ck[c].pc \notin {"idle", "write"}
                  \/ \E m \in 0..MaxLimit, s \in WindowSecs : SetLimit(u, m, s)
        /\ \A t \in RateTools :
              windows'[t] # NoWindow =>
                  /\ windows'[t].max_requests = LimitOf(t)'.max
                  /\ windows'[t].window_secs = LimitOf(t)'.secs
        /\ \A c \in Callers :
              Count(c) =>
                 LET t == ck[c].tool IN
                   /\ windows'[t].requests = windows[t].requests + 1
                          <=> rlh.tool[t].since < LimitOf(t).max
                   /\ windows'[t].requests = windows[t].requests
                          <=> rlh.tool[t].since >= LimitOf(t).max
      ]_vars

\* a tool with an override is used up, and a call for another tool, which has none, is
\* about to be admitted
C15_Witness ==
    \E t, u \in RateTools, c \in Callers :
        /\ t # u
        /\ rlh.tool[t].ovr.set /\ ~rlh.tool[u].ovr.set
        /\ windows[t].max_requests >= 1
        /\ windows[t].requests = windows[t].max_requests
        /\ ck[c].pc = "count" /\ ck[c].tool = u
        /\ Admits(windows[u])

(***************************************************************************)
(* Codec claims (checked under SpecCodec).                                 *)
(***************************************************************************)
RECURSIVE FramesOf(_)
\* the frames of messages ms, one behind the other
FramesOf(ms) == IF ms = <<>> THEN <<>> ELSE EncodeFrame(ms[1]) \o FramesOf(Tail(ms))

\* C16: when the bytes written so far are the frames of messages of at most 100 MiB of
\* JSON, a decode that has a whole frame (as it has once all bytes arrived) returns the
\* message encoded first among those not yet decoded, equal in all fields, and leaves
\* exactly the frames of the later messages: nothing, if there is none
C16_RoundTrip ==
    [][ (CodecDecode /\ chist.clean /\ chist.sent # <<>>
           /\ (cwire = <<>> \/ DecodeStatus(cbuf) = "frame"))
          => /\ cres'.out = "msg"
             /\ cres'.msg = chist.sent[1]
             /\ cwire = <<>> => cbuf' = FramesOf(Tail(chist.sent))
      ]_vars

\* two messages were encoded back to back and both decoded: the second, which has its
\* optional field set, just now, leaving the buffer empty
C16_Witness ==
    /\ chist.clean /\ chist.frames = 2 /\ chist.sent = <<>>
    /\ cbuf = <<>> /\ cwire = <<>>
    /\ cres.op = "decode" /\ cres.out = "msg"
    /\ cres.msg.stdin = "in" /\ cres.msg.len = Size(0, 1)

\* C17: encode rejects every message whose JSON is longer than 100 MiB, lengths of 2^32
\* bytes and more included, and then appends nothing to dst; it accepts a JSON of
\* 100 MiB - 4 bytes; and the prefix it writes is the length of the payload behind it
C17_EncodeSizeLimit ==
    [][ \A m \in CodecMsgs :
          CodecEncode(m) =>
             /\ OverLimit(JsonSize(m)) => (cres'.out = "err" /\ cwire' = cwire)
             /\ JsonSize(m) = Size(0, MaxFrameSize - 4) => cres'.out = "ok"
             /\ cres'.out = "ok" =>
                   /\ JsonSize(m).hi = 0
                   /\ cwire' = cwire \o U32BE(JsonSize(m).lo) \o Serialize(m)
      ]_vars

RECURSIVE Bytes(_)
\* the number of bytes of a buffer none of whose pieces has 2^32 bytes
Bytes(buf) == IF buf = <<>> THEN 0 ELSE PieceSize(buf[1]).lo + Bytes(Tail(buf))

\* C18: a decode on fewer than 4 bytes, or on fewer bytes than the 4 + length of the
\* frame at the front, returns no message and no error and leaves the buffer as it is;
\* a decode on a buffer that has the frame returns its message and takes exactly the
\* frame's 4 + length bytes off the front, leaving what follows
C18_IncompleteFrameUntouched ==
    [][ CodecDecode =>
          /\ ~HasBytes(cbuf, 4) => (cres'.out = "need" /\ cbuf' = cbuf)
          /\ (chist.clean /\ chist.sent # <<>>) =>
                LET frameLen == 4 + chist.sent[1].len.lo IN
                  /\ Bytes(cbuf) < frameLen => (cres'.out = "need" /\ cbuf' = cbuf)
                  /\ Bytes(cbuf) >= frameLen =>
                        /\ cres'.out = "msg" /\ cres'.msg = chist.sent[1]
                        /\ Bytes(cbuf') = Bytes(cbuf) - frameLen
                        /\ cbuf' = Advance(cbuf, frameLen)
      ]_vars

\* decode has just returned no message on a buffer that holds the prefix and the first
\* byte of a frame of 100 MiB
C18_Witness ==
    /\ chist.clean /\ chist.sent # <<>>
    /\ chist.sent[1].len = Size(0, MaxFrameSize)
    /\ cres.op = "decode" /\ cres.out = "need"
    /\ Bytes(cbuf) = 5

\* C19: a decode on a buffer whose first four bytes, read as a big-endian number, are
\* more than 100 MiB returns the protocol error and leaves the buffer as it is, whatever
\* follows the prefix; a prefix of exactly 100 MiB is not rejected for its size
C19_OversizePrefixRejected ==
    [][ (CodecDecode /\ HasBytes(cbuf, 4)) =>
          LET b == [i \in 1..4 |-> ByteAt(cbuf, i)]
              over == IF b[1] > 6 THEN TRUE
                      ELSE b[1] * 16777216 + b[2] * 65536 + b[3] * 256 + b[4]
                               > MaxFrameSize
          IN /\ over => (cres'.out = "too_large" /\ cbuf' = cbuf)
             /\ b = <<6, 64, 0, 0>> => cres'.out # "too_large"
      ]_vars

\* decode has just returned the protocol error on a buffer that holds the prefix
\* 100 MiB + 1 and bytes behind it
C19_Witness ==
    /\ cres.op = "decode" /\ cres.out = "too_large"
    /\ Len(cbuf) > 4
    /\ SubSeq(cbuf, 1, 4) = U32BE(MaxFrameSize + 1)

(***************************************************************************)
(* Listener claims (checked under SpecListen).                             *)
(***************************************************************************)
Terminal == {"CliResponse", "HttpResponse", "Error"}

\* C11: for every Ping the loop has read and every request it read after that Ping,
\* a Pong with the Ping's id and timestamp is on the connection before the terminal
\* response of that request; the loop never dispatches a Ping, and handling one leaves
\* the rate limiter's windows as they are
C11_PongBeforeLaterResponses ==
    [][ /\ \A i, j \in 1..Len(lhist'.seen) :
              (i < j /\ lhist'.seen[i].kind = "Ping" /\ IsRequest(lhist'.seen[j])) =>
                 \A y \in 1..Len(lout') :
                    (lout'[y].kind \in Terminal /\ lout'[y].id = lhist'.seen[j].id) =>
                       \E x \in 1..(y - 1) :
                          /\ lout'[x].kind = "Pong"
                          /\ lout'[x].id = lhist'.seen[i].id
                          /\ lout'[x].ts = lhist'.seen[i].ts
        /\ (ls.pc = "pong" \/ (ListenRead /\ lin[1].kind = "Ping")) =>
              /\ windows' = windows
              /\ ls'.pc \in {"pong", "read"}
      ]_vars

\* the response of a first request, the Pong of a Ping read after it, and the response
\* of a request read after the Ping are on the connection in this order
C11_Witness ==
    /\ Len(lout) = 3
    /\ lout[1].kind \in Terminal /\ lout[1].id = 1
    /\ lout[2].kind = "Pong" /\ lout[2].id = 2
    /\ lout[3].kind \in Terminal /\ lout[3].id = 3

\* the messages on the connection that answer request r with one of the kinds
Answers(r, kinds) == {y \in 1..Len(lout) : lout[y].kind \in kinds /\ lout[y].id = r}

\* C20: while stdout takes bytes, every request the loop has finished with that was
\* refused or failed has exactly one Error with its id on the connection and no other
\* terminal message, every accepted request that did not stream has exactly one
\* response with its id and no Error, and every terminal message and every event on
\* the connection carries the id of a request that the loop dispatched
C20_OneAnswerPerRequest ==
    ls.up =>
      /\ \A r \in DOMAIN lhist.done :
            (lhist.done[r] # "none" /\ ~(ls.pc = "respond" /\ ls.cur.id = r)) =>
               /\ lhist.done[r] \in {"refused", "failed"} =>
                     /\ Cardinality(Answers(r, {"Error"})) = 1
                     /\ Answers(r, {"CliResponse", "HttpResponse"}) = {}
               /\ lhist.done[r] = "ok" =>
                     /\ Cardinality(Answers(r, {"CliResponse", "HttpResponse"})) = 1
                     /\ Answers(r, {"Error"}) = {}
      /\ \A y \in 1..Len(lout) :
            lout[y].kind # "Pong" =>
               /\ lout[y].id \in DOMAIN lhist.done
               /\ lhist.done[lout[y].id] # "none"
               /\ lout[y].kind = "SseEvent" <=> lhist.done[lout[y].id] = "sse"

(***************************************************************************)
(* The server's accept loop (main.rs) and the connection tracker           *)
(* (connection_tracker.rs).  The loop is one task; every accepted          *)
(* connection gets a task of its own, which registers itself, serves the   *)
(* connection with Listener::listen, and unregisters itself.               *)
(***************************************************************************)
\* ConnectionTracker::count
TrackerCount == Len(connections)

\* a peer connects: its connection waits in the listener's backlog
PeerConnect(a) ==
    /\ tasks[a] = "none"
    /\ tasks' = [tasks EXCEPT ![a] = "backlog"]
    /\ UNCHANGED <<connections, srv>>

\* listener.accept() yields the connection of a: the loop reads the count, drops the
\* stream when the count has reached max_connections, and spawns the task otherwise
Accept(a) ==
    /\ srv.pc = "accepting"
    /\ tasks[a] = "backlog"
    /\ tasks' = [tasks EXCEPT ![a] = IF TrackerCount >= MaxConnections
                                       THEN "dropped" ELSE "spawned"]
    /\ UNCHANGED <<connections, srv>>

\* the spawned task starts: ConnectionTracker::register, then it serves the connection
Register(a) ==
    /\ tasks[a] = "spawned"
    /\ connections' = Append(connections, a)
    /\ tasks' = [tasks EXCEPT ![a] = "serving"]
    /\ UNCHANGED srv

\* listen returns (the peer closed the connection) or the shutdown signal arrives
ServeEnd(a) ==
    /\ tasks[a] = "serving"
    /\ tasks' = [tasks EXCEPT ![a] = "closing"]
    /\ UNCHANGED <<connections, srv>>

\* ConnectionTracker::unregister: connections.retain(|c| c.remote_addr != addr)
Unregister(a) ==
    /\ tasks[a] = "closing"
    /\ connections' = SelectSeq(connections, LAMBDA c : c # a)
    /\ tasks' = [tasks EXCEPT ![a] = "closed"]
    /\ UNCHANGED srv

\* SIGINT or SIGTERM ends the accept loop: shutdown_tx.send(()) reaches the receiver
\* of every task spawned and not finished, and the drain's deadline is set
Signal ==
    /\ srv.pc = "accepting"
    /\ srv' = [pc |-> "drain", elapsed |-> 0, slept |-> FALSE,
               notified |-> {a \in Addrs : tasks[a] \in {"spawned", "serving"}}]
    /\ UNCHANGED <<connections, tasks>>

\* the top of the drain loop: connection_tracker.count(), and the break at 0
DrainCheck ==
    /\ srv.pc = "drain"
    /\ srv' = IF TrackerCount = 0
               THEN [srv EXCEPT !.pc = "exited"]
               ELSE [srv EXCEPT !.pc = "select", !.slept = FALSE]
    /\ UNCHANGED <<connections, tasks>>

\* the mutant of DeadlineReady: a select without the deadline
DeadlineNever(elapsed) == FALSE

\* the deadline of the drain, sleep(drain_timeout), has completed
DeadlineReady(elapsed) == elapsed >= DrainTicks

\* a quarter of a second passes in the select: its 250 ms sleep completes
DrainTick ==
    /\ srv.pc = "select"
    /\ ~srv.slept
    /\ ~DeadlineReady(srv.elapsed)
    /\ srv.elapsed <= DrainTicks
    /\ srv' = [srv EXCEPT !.elapsed = @ + 1, !.slept = TRUE]
    /\ UNCHANGED <<connections, tasks>>

\* the select takes a branch that is ready: the deadline (break), or the sleep (the
\* loop checks again)
DrainWake(branch) ==
    /\ srv.pc = "select"
    /\ CASE branch = "deadline" -> /\ DeadlineReady(srv.elapsed)
                                   /\ srv' = [srv EXCEPT !.pc = "exited"]
         [] branch = "sleep"    -> /\ srv.slept
                                   /\ srv' = [srv EXCEPT !.pc = "drain"]
    /\ UNCHANGED <<connections, tasks>>

\* the connections that are being served
Served == {a \in Addrs : tasks[a] = "serving"}

InitAccept ==
    /\ connections = <<>>
    /\ tasks = [a \in Addrs |-> "none"]
    /\ srv = Accepting
    /\ lastOp = "new"
    /\ MuxIdle
    /\ ConnIdle
    /\ AgentIdle
    /\ RateIdle
    /\ CodecIdle
    /\ ListenIdle
    /\ PolicyIdle
    /\ DispatchIdle
    /\ ProxyIdle
    /\ SseIdle
    /\ BackoffIdle
    /\ ExecIdle

restOfAccept ==
    <<lastOp, muxVars, connVars, agentVars, rateVars, codecVars, listenVars, policyVars,
      dispatchVars,
      proxyVars, sseVars, backoffVars, execVars>>

NextAccept ==
    \/ \E a \in Addrs : PeerConnect(a) /\ UNCHANGED restOfAccept
    \/ \E a \in Addrs : Accept(a) /\ UNCHANGED restOfAccept
    \/ \E a \in Addrs : Register(a) /\ UNCHANGED restOfAccept
    \/ \E a \in Addrs : ServeEnd(a) /\ UNCHANGED restOfAccept
    \/ \E a \in Addrs : Unregister(a) /\ UNCHANGED restOfAccept
    \/ Signal /\ UNCHANGED restOfAccept
    \/ DrainCheck /\ UNCHANGED restOfAccept
    \/ DrainTick /\ UNCHANGED restOfAccept
    \/ \E branch \in {"deadline", "sleep"} : DrainWake(branch) /\ UNCHANGED restOfAccept

SpecAccept == InitAccept /\ [][NextAccept]_vars

(***************************************************************************)
(* Accept loop claims (checked under SpecAccept).                          *)
(***************************************************************************)
\* C21: at no time are more than max_connections connections being served, also when
\* connections are accepted before the tasks of earlier ones have registered, and a
\* connection accepted while max_connections are being served is dropped
C21_ServedWithinCap ==
    [][ /\ Cardinality(Served') <= MaxConnections
        /\ \A a \in Addrs :
              (Accept(a) /\ Cardinality(Served) >= MaxConnections) =>
                 tasks'[a] = "dropped"
      ]_vars

(***************************************************************************)
(* The policy crate: glob patterns (glob::Pattern), the argv matcher       *)
(* (matcher.rs) and the validator (validator.rs).  A string is a sequence  *)
(* of characters.  The patterns used have no character class that closes   *)
(* and no `**`: a `[` is an unclosed class, for which Pattern::new fails.  *)
(***************************************************************************)
\* Pattern::new(p) returns Ok
ValidPattern(p) == \A i \in 1..Len(p) : p[i] # "["

\* Pattern::matches(s) of the compiled pattern p: `*` is any run of characters,
\* `?` any one character, every other character itself
RECURSIVE GlobMatches(_, _)
GlobMatches(p, s) ==
    IF p = <<>> THEN s = <<>>
    ELSE IF Head(p) = "*"
           THEN GlobMatches(Tail(p), s) \/ (s # <<>> /\ GlobMatches(p, Tail(s)))
    ELSE IF Head(p) = "?"
           THEN s # <<>> /\ GlobMatches(Tail(p), Tail(s))
    ELSE s # <<>> /\ Head(s) = Head(p) /\ GlobMatches(Tail(p), Tail(s))

\* argv.join(" ")
RECURSIVE Join(_)
Join(argv) ==
    IF argv = <<>> THEN <<>>
    ELSE IF Len(argv) = 1 THEN argv[1]
    ELSE argv[1] \o <<" ">> \o Join(Tail(argv))

\* the sequences of length at most n over S
SeqsUpTo(S, n) == UNION {[1..k -> S] : k \in 0..n}

\* the arguments and the argvs of a CLI request (";" is a dangerous shell character)
Words == {<<"a">>, <<"b">>, <<"a", ";">>}
Argvs == SeqsUpTo(Words, MaxArgs)

\* the glob patterns of the policies: three that compile and match some argvs, one
\* that matches every argv, and one that does not compile
Patterns == {<<"*">>, <<"a", "*">>, <<"a", " ", "b">>, <<"*", " ", "?">>, <<"[">>}
PatternLists == SeqsUpTo(Patterns, MaxPatterns)

\* `for pattern in patterns { if pattern.matches(s) { return .. } }` finds a match
RECURSIVE LoopFindsMatch(_, _)
LoopFindsMatch(patterns, s) ==
    IF patterns = <<>> THEN FALSE
    ELSE IF GlobMatches(Head(patterns), s) THEN TRUE
    ELSE LoopFindsMatch(Tail(patterns), s)

\* ArgvMatcher::new(allow_patterns, deny_patterns) returns Ok
MatcherBuilds(allow, deny) ==
    /\ \A i \in 1..Len(allow) : ValidPattern(allow[i])
    /\ \A i \in 1..Len(deny) : ValidPattern(deny[i])

\* ArgvMatcher::matches(argv)
MatchesAllowFirst(m, argv) ==
    LET argv_str == Join(argv)
    IN  IF LoopFindsMatch(m.allow_patterns, argv_str) THEN TRUE
        ELSE FALSE

Matches(m, argv) ==
    LET argv_str == Join(argv)
    IN  IF LoopFindsMatch(m.deny_patterns, argv_str) THEN FALSE
        ELSE IF LoopFindsMatch(m.allow_patterns, argv_str) THEN TRUE
        ELSE FALSE

\* a call of ArgvMatcher::new, the first call of a run
ArgvMatcherNew(allow, deny) ==
    /\ pcall = NoCall
    /\ matcher' = IF MatcherBuilds(allow, deny)
                    THEN [built |-> TRUE, allow_patterns |-> allow, deny_patterns |-> deny]
                    ELSE matcher
    /\ pcall' = [fn |-> "new", out |-> MatcherBuilds(allow, deny)]

\* a call of matches on the matcher just built
ArgvMatches(argv) ==
    /\ matcher.built
    /\ pcall.fn = "new"
    /\ pcall' = [fn |-> "matches", argv |-> argv, out |-> Matches(matcher, argv)]
    /\ UNCHANGED matcher

\* the JSON-RPC methods of the requests and of the policies
Methods == {"send", "receive", "delete"}
MethodLists == SeqsUpTo(Methods, MaxPatterns)

\* list.contains(&x)
Contains(list, x) == \E i \in 1..Len(list) : list[i] = x

\* PolicyValidator::validate_jsonrpc_method returns Ok
ValidateMethodAllowFirst(method, allowed_methods, denied_methods) ==
    IF allowed_methods # <<>> /\ ~Contains(allowed_methods, method) THEN FALSE
    ELSE TRUE

ValidateMethod(method, allowed_methods, denied_methods) ==
    IF Contains(denied_methods, method) THEN FALSE
    ELSE IF allowed_methods # <<>> /\ ~Contains(allowed_methods, method) THEN FALSE
    ELSE TRUE

\* a call of validate_jsonrpc_method, the only call of a run
ValidateJsonrpcMethod(method, allowed, denied) ==
    /\ pcall = NoCall
    /\ pcall' = [fn |-> "method", method |-> method, allowed |-> allowed,
                 denied |-> denied, out |-> ValidateMethod(method, allowed, denied)]
    /\ UNCHANGED matcher

\* serde_json::Value: a text that is no JSON, and the JSON values
NotJson == [t |-> "garbage"]
Absent == [t |-> "absent"]
Num == [t |-> "number"]
Str(v) == [t |-> "string", v |-> v]
Arr(items) == [t |-> "array", items |-> items]
Obj(fields) == [t |-> "object", fields |-> fields]

\* Value::get(key): the member of an object, None for any other value
Get(v, key) ==
    IF v.t = "object" /\ key \in DOMAIN v.fields THEN v.fields[key] ELSE Absent

\* the strings a parameter holds
Values == {<<"a">>, <<"b">>, <<"a", " ", "b">>}

\* the values of the filtered field, the values of params, and the request bodies
FieldValues ==
    {Str(v) : v \in Values} \cup {Arr(<<Str(v)>>) : v \in Values}
        \cup {Arr(<<Str(v), Num>>) : v \in Values}
        \cup {Num, Arr(<<>>), Arr(<<Num, Str(<<"a">>)>>), Obj(<<>>)}
ParamsValues ==
    {Obj([recipient |-> f]) : f \in FieldValues}
        \cup {Obj(<<>>), Obj([message |-> Str(<<"a">>)]), Str(<<"a">>), Arr(<<Str(<<"a">>)>>)}
Bodies ==
    {Obj([params |-> p]) : p \in ParamsValues}
        \cup {NotJson, Num, Arr(<<>>), Obj(<<>>), Obj([recipient |-> Str(<<"a">>)])}

\* HashMap<String, ParamFilter>: no filter, or a filter of the method "send"
ParamFilters ==
    [field : {"recipient"}, allow_patterns : PatternLists, deny_patterns : PatternLists]
FilterMaps == {<<>>} \cup {[send |-> f] : f \in ParamFilters}

\* the string taken from params[field]: a string, or the first element of an array
\* when that is a string; Absent otherwise
FieldValue(params, field) ==
    LET v == Get(params, field)
    IN  IF v.t = "string" THEN v
        ELSE IF v.t = "array" /\ v.items # <<>> /\ v.items[1].t = "string" THEN v.items[1]
        ELSE Absent

\* a loop over patterns that compiles each one and tests the value: "invalid" at the
\* first pattern that does not compile, "match" at the first that matches, else "none"
RECURSIVE PatternLoop(_, _)
PatternLoop(patterns, value) ==
    IF patterns = <<>> THEN "none"
    ELSE IF ~ValidPattern(Head(patterns)) THEN "invalid"
    ELSE IF GlobMatches(Head(patterns), value) THEN "match"
    ELSE PatternLoop(Tail(patterns), value)

\* PolicyValidator::validate_jsonrpc_params returns Ok
ValidateParamsIgnoringDeny(method, body, filters) ==
    IF method \notin DOMAIN filters THEN TRUE
    ELSE LET filter == filters[method] IN
         IF body.t = "garbage" THEN FALSE
         ELSE IF Get(body, "params") = Absent THEN FALSE
         ELSE LET field_value == FieldValue(Get(body, "params"), filter.field) IN
              IF field_value = Absent THEN FALSE
              ELSE IF filter.allow_patterns # <<>>
                        /\ PatternLoop(filter.allow_patterns, field_value.v) # "match"
                     THEN FALSE
              ELSE TRUE

ValidateParams(method, body, filters) ==
    IF method \notin DOMAIN filters THEN TRUE
    ELSE LET filter == filters[method] IN
         IF body.t = "garbage" THEN FALSE
         ELSE IF Get(body, "params") = Absent THEN FALSE
         ELSE LET field_value == FieldValue(Get(body, "params"), filter.field) IN
              IF field_value = Absent THEN FALSE
              ELSE IF PatternLoop(filter.deny_patterns, field_value.v) # "none" THEN FALSE
              ELSE IF filter.allow_patterns # <<>>
                        /\ PatternLoop(filter.allow_patterns, field_value.v) # "match"
                     THEN FALSE
              ELSE TRUE

\* a call of validate_jsonrpc_params, the only call of a run
ValidateJsonrpcParams(method, body, filters) ==
    /\ pcall = NoCall
    /\ pcall' = [fn |-> "params", method |-> method, body |-> body,
                 filters |-> filters, out |-> ValidateParams(method, body, filters)]
    /\ UNCHANGED matcher

InitPolicy ==
    /\ matcher = NoMatcher
    /\ pcall = NoCall
    /\ lastOp = "new"
    /\ MuxIdle
    /\ ConnIdle
    /\ AgentIdle
    /\ RateIdle
    /\ CodecIdle
    /\ ListenIdle
    /\ AcceptIdle
    /\ DispatchIdle
    /\ ProxyIdle
    /\ SseIdle
    /\ BackoffIdle
    /\ ExecIdle

restOfPolicy ==
    <<lastOp, muxVars, connVars, agentVars, rateVars, codecVars, listenVars, acceptVars,
      dispatchVars,
      proxyVars, sseVars, backoffVars, execVars>>

\* a run is one call of the validator, or ArgvMatcher::new and a call of matches
NextPolicy ==
    \/ /\ pcall = NoCall
       /\ \E allow, deny \in PatternLists :
             ArgvMatcherNew(allow, deny) /\ UNCHANGED restOfPolicy
    \/ /\ pcall.fn = "new"
       /\ \E argv \in Argvs : ArgvMatches(argv) /\ UNCHANGED restOfPolicy
    \/ /\ pcall = NoCall
       /\ \E method \in Methods, allowed, denied \in MethodLists :
             ValidateJsonrpcMethod(method, allowed, denied) /\ UNCHANGED restOfPolicy
    \/ /\ pcall = NoCall
       /\ \E method \in Methods, body \in Bodies, filters \in FilterMaps :
             ValidateJsonrpcParams(method, body, filters) /\ UNCHANGED restOfPolicy

SpecPolicy == InitPolicy /\ [][NextPolicy]_vars

(***************************************************************************)
(* Policy claims (checked under SpecPolicy).                               *)
(***************************************************************************)
\* C22: matches(argv) returns true if and only if no deny glob matches argv joined
\* with single spaces and at least one allow glob matches it; so an argv that a deny
\* glob matches is denied whatever the allow list, and a matcher with an empty allow
\* list denies every argv
C22_DenyThenAllow ==
    pcall.fn = "matches" =>
       LET s == Join(pcall.argv)
           denied == \E i \in 1..Len(matcher.deny_patterns) :
                        GlobMatches(matcher.deny_patterns[i], s)
           allowed == \E i \in 1..Len(matcher.allow_patterns) :
                         GlobMatches(matcher.allow_patterns[i], s)
       IN  /\ pcall.out <=> (~denied /\ allowed)
           /\ denied => ~pcall.out
           /\ matcher.allow_patterns = <<>> => ~pcall.out

\* an argv of two arguments that an allow glob and a deny glob both match was denied
C22_Witness ==
    /\ pcall.fn = "matches"
    /\ Len(pcall.argv) = 2
    /\ ~pcall.out
    /\ \E i \in 1..Len(matcher.allow_patterns) :
          GlobMatches(matcher.allow_patterns[i], Join(pcall.argv))
    /\ \E i \in 1..Len(matcher.deny_patterns) :
          GlobMatches(matcher.deny_patterns[i], Join(pcall.argv))
    /\ \E i \in 1..Len(matcher.deny_patterns) :
          ~GlobMatches(matcher.deny_patterns[i], Join(pcall.argv))

\* C23: validate_jsonrpc_method denies a method of the deny list even when the allow
\* list has it too; a method not in the deny list is denied if and only if the allow
\* list is not empty and does not have it; with both lists empty every method passes
C23_MethodDenyFirst ==
    pcall.fn = "method" =>
       LET inDeny == pcall.method \in {pcall.denied[i] : i \in 1..Len(pcall.denied)}
           inAllow == pcall.method \in {pcall.allowed[i] : i \in 1..Len(pcall.allowed)}
       IN  /\ inDeny => ~pcall.out
           /\ ~inDeny => (~pcall.out <=> (Len(pcall.allowed) > 0 /\ ~inAllow))
           /\ (Len(pcall.allowed) = 0 /\ Len(pcall.denied) = 0) => pcall.out

\* a method that is in both lists was denied
C23_Witness ==
    /\ pcall.fn = "method"
    /\ \E i \in 1..Len(pcall.denied) : pcall.denied[i] = pcall.method
    /\ \E i \in 1..Len(pcall.allowed) : pcall.allowed[i] = pcall.method
    /\ ~pcall.out

\* the cases of a validate_jsonrpc_params call: its filter, and the string it tests
HasFilter == pcall.method \in DOMAIN pcall.filters
FilterOf == pcall.filters[pcall.method]
IsJson == pcall.body.t # "garbage"
HasParams == pcall.body.t = "object" /\ "params" \in DOMAIN pcall.body.fields
ParamOf == pcall.body.fields.params.fields[FilterOf.field]
HasParam ==
    /\ pcall.body.fields.params.t = "object"
    /\ FilterOf.field \in DOMAIN pcall.body.fields.params.fields
    /\ \/ ParamOf.t = "string"
       \/ ParamOf.t = "array" /\ Len(ParamOf.items) > 0 /\ ParamOf.items[1].t = "string"
TestedValue == IF ParamOf.t = "string" THEN ParamOf.v ELSE ParamOf.items[1].v

\* pattern p is a glob that matches the tested value
GlobHits(p) == ValidPattern(p) /\ GlobMatches(p, TestedValue)

\* C24 as stated: validate_jsonrpc_params passes when the method has no filter;
\* otherwise it passes if and only if the body is JSON, has params, params[field] is a
\* string or an array whose first element is a string, no deny pattern matches that
\* string and, when there are allow patterns, at least one of them matches it
C24_ParamFilter ==
    pcall.fn = "params" =>
       (pcall.out <=>
          \/ ~HasFilter
          \/ /\ IsJson /\ HasParams /\ HasParam
             /\ \A i \in 1..Len(FilterOf.deny_patterns) : ~GlobHits(FilterOf.deny_patterns[i])
             /\ \/ FilterOf.allow_patterns = <<>>
                \/ \E i \in 1..Len(FilterOf.allow_patterns) :
                      GlobHits(FilterOf.allow_patterns[i]))

\* C24, amended: as stated, and a deny pattern that is no valid glob rejects like one
\* that matches, and an allow pattern counts only if every allow pattern before it is
\* a valid glob
C24_ParamFilterValidGlobs ==
    pcall.fn = "params" =>
       (pcall.out <=>
          \/ ~HasFilter
          \/ /\ IsJson /\ HasParams /\ HasParam
             /\ \A i \in 1..Len(FilterOf.deny_patterns) :
                   /\ ValidPattern(FilterOf.deny_patterns[i])
                   /\ ~GlobHits(FilterOf.deny_patterns[i])
             /\ \/ FilterOf.allow_patterns = <<>>
                \/ \E i \in 1..Len(FilterOf.allow_patterns) :
                      /\ GlobHits(FilterOf.allow_patterns[i])
                      /\ \A j \in 1..(i - 1) : ValidPattern(FilterOf.allow_patterns[j]))

\* a request whose parameter is an array was rejected because a deny pattern matches
\* its first element, which the second allow pattern matches too
C24_Witness ==
    /\ pcall.fn = "params"
    /\ HasFilter /\ IsJson /\ HasParams /\ HasParam
    /\ ParamOf.t = "array"
    /\ ~pcall.out
    /\ \E i \in 1..Len(FilterOf.deny_patterns) : GlobHits(FilterOf.deny_patterns[i])
    /\ Len(FilterOf.allow_patterns) = 2
    /\ ~GlobHits(FilterOf.allow_patterns[1])
    /\ GlobHits(FilterOf.allow_patterns[2])

(***************************************************************************)
(* The dispatchers (cli_dispatch.rs, http_dispatch.rs) behind              *)
(* Listener::dispatch_message (listener.rs), with the rate limiter that    *)
(* nobody reconfigures.  One step is one call of dispatch_message.         *)
(***************************************************************************)
\* DANGEROUS_CHARS; the characters that are no letters are written by their names
DangerousChars ==
    {";", "|", "&", "DOLLAR", "BACKTICK", "(", ")", "<", ">", "LF", "CR", "TAB"}

\* PolicyValidator::has_dangerous_shell_chars(s)
HasDangerousShellChars(s) == \E i \in 1..Len(s) : s[i] \in DangerousChars

\* PolicyValidator::validate_binary_path(path) returns Ok
ValidateBinaryPath(path) ==
    /\ ~\E i \in 1..(Len(path) - 1) : path[i] = "." /\ path[i + 1] = "."
    /\ ~\E i \in 1..Len(path) : path[i] = "NUL"

\* the policies of a configuration
Binaries == {<<"/", "g">>, <<"/", ".", "g">>, <<"/", ".", ".", "/", "g">>, <<"/", "g", "NUL">>}
CliPolicies ==
    [type : {"cli"}, binary : Binaries,
     argv_allow_patterns : {<<>>, <<<<"*">>>>, <<<<"a", " ", "b">>, <<"a", "*">>>>, <<<<"[">>>>},
     argv_deny_patterns : {<<>>, <<<<"b", "*">>>>}]
DispatchFilters ==
    {<<>>,
     [send |-> [field |-> "recipient", allow_patterns |-> <<<<"a", "*">>>>,
                deny_patterns |-> <<>>]],
     [send |-> [field |-> "recipient", allow_patterns |-> <<>>,
                deny_patterns |-> <<<<"[">>>>]]}
HttpPolicies ==
    [type : {"http"}, upstream : {"http://127.0.0.1:18080"},
     jsonrpc_allow_methods : {<<>>, <<"send">>},
     jsonrpc_deny_methods : {<<>>, <<"delete", "send">>},
     jsonrpc_param_filters : DispatchFilters]
SignalPolicy ==
    [type |-> "http", upstream |-> "http://127.0.0.1:18080",
     jsonrpc_allow_methods |-> <<"send">>, jsonrpc_deny_methods |-> <<>>,
     jsonrpc_param_filters |-> <<>>]

\* the configurations: every policy for gh or none, and an HTTP policy for signal
PolicyConfigs == [gh : {NoPolicy} \cup CliPolicies \cup HttpPolicies, signal : {SignalPolicy}]

\* the requests of a client
CliRequests == [kind : {"CliRequest"}, id : {1}, tool : RateTools, argv : Argvs]
NoBody == [some |-> FALSE]
Body(json, len) == [some |-> TRUE, json |-> json, len |-> len]
Rpc(method, recipient) ==
    Obj([method |-> Str(method), params |-> Obj([recipient |-> Str(recipient)])])
HttpBodies ==
    {NoBody, Body(NotJson, Size(0, 1)), Body(NotJson, Size(0, MaxFrameSize + 1)),
     Body(Obj(<<>>), Size(0, 1)), Body(Obj([method |-> Num]), Size(0, 1)),
     Body(Obj([method |-> Str("send")]), Size(0, 1)),
     Body(Rpc("send", <<"a">>), Size(0, 1)), Body(Rpc("send", <<"b">>), Size(0, 1)),
     Body(Rpc("send", <<"a">>), Size(0, MaxFrameSize + 1)),
     Body(Rpc("send", <<"a">>), Size(0, MaxFrameSize)),
     Body(Rpc("delete", <<"a">>), Size(0, 1)), Body(Rpc("receive", <<"a">>), Size(0, 1))}
Paths == {<<"/", "r">>, <<"/", "CR", "r">>, <<"/", "r", "LF">>}
HttpRequests ==
    [kind : {"HttpRequest"}, id : {1}, tool : RateTools, method : {"POST"},
     path : {<<"/", "r">>}, body : HttpBodies]
      \cup [kind : {"HttpRequest"}, id : {1}, tool : RateTools, method : {"POST", "TRACE"},
            path : Paths, body : {NoBody, Body(Rpc("send", <<"a">>), Size(0, 1))}]

\* the HTTP methods proxy_to_upstream builds a request for
UpstreamMethods == {"GET", "POST", "PUT", "DELETE", "PATCH", "HEAD"}

\* dispatch_cli up to the spawn: the error it returns with, or "none"
CliRefusalWithoutShellCheck(req) ==
    LET cli_policy == policy[req.tool] IN
    IF cli_policy = NoPolicy THEN "tool_not_in_policy"
    ELSE IF cli_policy.type # "cli" THEN "http_only"
    ELSE IF ~MatcherBuilds(cli_policy.argv_allow_patterns, cli_policy.argv_deny_patterns)
           THEN "invalid_pattern"
    ELSE IF ~Matches([allow_patterns |-> cli_policy.argv_allow_patterns,
                      deny_patterns |-> cli_policy.argv_deny_patterns], req.argv)
           THEN "denied_by_policy"
    ELSE IF ~ValidateBinaryPath(cli_policy.binary) THEN "binary_path"
    ELSE "none"

CliRefusal(req) ==
    LET cli_policy == policy[req.tool] IN
    IF cli_policy = NoPolicy THEN "tool_not_in_policy"
    ELSE IF cli_policy.type # "cli" THEN "http_only"
    ELSE IF ~MatcherBuilds(cli_policy.argv_allow_patterns, cli_policy.argv_deny_patterns)
           THEN "invalid_pattern"
    ELSE IF ~Matches([allow_patterns |-> cli_policy.argv_allow_patterns,
                      deny_patterns |-> cli_policy.argv_deny_patterns], req.argv)
           THEN "denied_by_policy"
    ELSE IF ~ValidateBinaryPath(cli_policy.binary) THEN "binary_path"
    ELSE IF \E i \in 1..Len(req.argv) : HasDangerousShellChars(req.argv[i])
           THEN "shell_injection"
    ELSE "none"

\* the JSON-RPC method of a request: json.get("method").and_then(|v| v.as_str())
RpcMethod(req) ==
    IF req.body.some /\ req.body.json.t # "garbage"
          /\ Get(req.body.json, "method").t = "string"
      THEN Get(req.body.json, "method").v
      ELSE "none"

\* dispatch_http and proxy_to_upstream up to request_builder.send(): the error, or "none"
HttpRefusalWithoutParams(req) ==
    LET http_policy == policy[req.tool] IN
    IF http_policy = NoPolicy THEN "tool_not_in_policy"
    ELSE IF http_policy.type # "http" THEN "cli_only"
    ELSE IF RpcMethod(req) # "none"
              /\ ~ValidateMethod(RpcMethod(req), http_policy.jsonrpc_allow_methods,
                                 http_policy.jsonrpc_deny_methods)
           THEN "method"
    ELSE IF \E i \in 1..Len(req.path) : req.path[i] \in {"CR", "LF"} THEN "path"
    ELSE IF req.body.some /\ OverLimit(req.body.len) THEN "body_too_large"
    ELSE IF req.method \notin UpstreamMethods THEN "unsupported_method"
    ELSE "none"

HttpRefusal(req) ==
    LET http_policy == policy[req.tool] IN
    IF http_policy = NoPolicy THEN "tool_not_in_policy"
    ELSE IF http_policy.type # "http" THEN "cli_only"
    ELSE IF RpcMethod(req) # "none"
              /\ ~ValidateMethod(RpcMethod(req), http_policy.jsonrpc_allow_methods,
                                 http_policy.jsonrpc_deny_methods)
           THEN "method"
    ELSE IF RpcMethod(req) # "none"
              /\ ~ValidateParams(RpcMethod(req), req.body.json,
                                 http_policy.jsonrpc_param_filters)
           THEN "params"
    ELSE IF \E i \in 1..Len(req.path) : req.path[i] \in {"CR", "LF"} THEN "path"
    ELSE IF req.body.some /\ OverLimit(req.body.len) THEN "body_too_large"
    ELSE IF req.method \notin UpstreamMethods THEN "unsupported_method"
    ELSE "none"

NoSpawn == [binary |-> <<>>]
NoUpstream == [upstream |-> "none"]

\* dispatch_message(CliRequest): the limiter, dispatch_cli, and the process, which
\* runs to its end ("ok") or cannot be run ("fail")
DispatchCliRequest(req, run) ==
    /\ windows' = WindowsChecked(req.tool)
    /\ dcall' =
         IF ~CheckAllows(req.tool)
           THEN [req |-> req, admitted |-> FALSE, spawned |-> NoSpawn,
                 upstream |-> NoUpstream, out |-> ErrorFor(req, "rate_limited")]
         ELSE IF CliRefusal(req) # "none"
           THEN [req |-> req, admitted |-> TRUE, spawned |-> NoSpawn,
                 upstream |-> NoUpstream, out |-> ErrorFor(req, "cli_error")]
         ELSE [req |-> req, admitted |-> TRUE,
               spawned |-> [binary |-> policy[req.tool].binary, argv |-> req.argv],
               upstream |-> NoUpstream,
               out |-> IF run = "ok" THEN ResponseFor(req, Size(0, 1))
                                     ELSE ErrorFor(req, "cli_error")]
    /\ UNCHANGED policy

\* dispatch_message(HttpRequest): the limiter, dispatch_http, and the upstream, which
\* answers ("ok") or fails or times out ("fail")
DispatchHttpRequest(req, up) ==
    /\ windows' = WindowsChecked(req.tool)
    /\ dcall' =
         IF ~CheckAllows(req.tool)
           THEN [req |-> req, admitted |-> FALSE, spawned |-> NoSpawn,
                 upstream |-> NoUpstream, out |-> ErrorFor(req, "rate_limited")]
         ELSE IF HttpRefusal(req) # "none"
           THEN [req |-> req, admitted |-> TRUE, spawned |-> NoSpawn,
                 upstream |-> NoUpstream, out |-> ErrorFor(req, "http_error")]
         ELSE [req |-> req, admitted |-> TRUE, spawned |-> NoSpawn,
               upstream |-> [upstream |-> policy[req.tool].upstream, path |-> req.path],
               out |-> IF up = "ok" THEN ResponseFor(req, Size(0, 1))
                                    ELSE ErrorFor(req, "http_error")]
    /\ UNCHANGED policy

\* the dispatchers built with_policy, and RateLimiter::new(1, 1)
InitDispatch ==
    /\ policy \in PolicyConfigs
    /\ dcall = NoDispatch
    /\ lastOp = "new"
    /\ MuxIdle
    /\ ConnIdle
    /\ AgentIdle
    /\ RateIdle
    /\ CodecIdle
    /\ ListenIdle
    /\ AcceptIdle
    /\ PolicyIdle
    /\ ProxyIdle
    /\ SseIdle
    /\ BackoffIdle
    /\ ExecIdle

restOfDispatch ==
    <<lastOp, muxVars, connVars, agentVars, codecVars, listenVars, acceptVars, policyVars,
      limiter, now, mapLock, ck, rlh,
      proxyVars, sseVars, backoffVars, execVars>>

NextDispatch ==
    \/ \E req \in CliRequests, run \in {"ok", "fail"} :
          DispatchCliRequest(req, run) /\ UNCHANGED restOfDispatch
    \/ \E req \in HttpRequests, up \in {"ok", "fail"} :
          DispatchHttpRequest(req, up) /\ UNCHANGED restOfDispatch

SpecDispatch == InitDispatch /\ [][NextDispatch]_vars

(***************************************************************************)
(* Dispatcher claims (checked under SpecDispatch).                         *)
(***************************************************************************)
\* C25: a process is spawned for a CliRequest only if the rate limiter admitted the
\* request, the tool has a CLI policy, the argv matcher accepts the argv, the policy's
\* binary passes the binary-path validation and no argument has a dangerous shell
\* character; the binary spawned is the policy's, with the argv of the request
C25_SpawnOnlyIfAllChecksPass ==
    (dcall.req.kind # "none" /\ dcall.spawned # NoSpawn) =>
       LET p == policy[dcall.req.tool]
           s == Join(dcall.req.argv)
       IN  /\ dcall.req.kind = "CliRequest"
           /\ dcall.admitted
           /\ p.type = "cli"
           /\ \A i \in 1..Len(p.argv_deny_patterns) :
                 /\ ValidPattern(p.argv_deny_patterns[i])
                 /\ ~GlobMatches(p.argv_deny_patterns[i], s)
           /\ \E i \in 1..Len(p.argv_allow_patterns) :
                 GlobMatches(p.argv_allow_patterns[i], s)
           /\ \A i \in 1..Len(p.argv_allow_patterns) : ValidPattern(p.argv_allow_patterns[i])
           /\ ValidateBinaryPath(p.binary)
           /\ \A i \in 1..Len(dcall.req.argv) : \A k \in 1..Len(dcall.req.argv[i]) :
                 dcall.req.argv[i][k] \notin DangerousChars
           /\ dcall.spawned.binary = p.binary
           /\ dcall.spawned.argv = dcall.req.argv

\* a process was spawned for a request of two arguments, under a policy with a deny
\* pattern
C25_Witness ==
    /\ dcall.req.kind = "CliRequest"
    /\ dcall.spawned # NoSpawn
    /\ Len(dcall.req.argv) = 2
    /\ policy[dcall.req.tool].argv_deny_patterns # <<>>

\* C26: an upstream HTTP request is sent for an HttpRequest only if the rate limiter
\* admitted it, the tool has an HTTP policy, the path has no CR and no LF, the body is
\* at most 100 MiB long and, when the body is JSON with a string method, the method
\* passes the method validation and the parameter filter; in every other case no
\* upstream request is made and the message returned is an Error
C26_UpstreamOnlyIfAllChecksPass ==
    dcall.req.kind = "HttpRequest" =>
       LET p == policy[dcall.req.tool]
           req == dcall.req
           hasMethod == /\ req.body.some
                        /\ req.body.json.t = "object"
                        /\ "method" \in DOMAIN req.body.json.fields
                        /\ req.body.json.fields.method.t = "string"
           m == req.body.json.fields.method.v
       IN  /\ dcall.upstream # NoUpstream =>
                /\ dcall.admitted
                /\ p.type = "http"
                /\ \A i \in 1..Len(req.path) : req.path[i] # "CR" /\ req.path[i] # "LF"
                /\ req.body.some => (req.body.len.hi = 0 /\ req.body.len.lo <= MaxFrameSize)
                /\ hasMethod =>
                      /\ \A i \in 1..Len(p.jsonrpc_deny_methods) : p.jsonrpc_deny_methods[i] # m
                      /\ \/ p.jsonrpc_allow_methods = <<>>
                         \/ \E i \in 1..Len(p.jsonrpc_allow_methods) :
                               p.jsonrpc_allow_methods[i] = m
                      /\ ValidateParams(m, req.body.json, p.jsonrpc_param_filters)
                /\ dcall.upstream.upstream = p.upstream
           /\ dcall.upstream = NoUpstream => dcall.out.kind = "Error"
           /\ dcall.spawned = NoSpawn

\* an upstream request was made for a JSON-RPC request whose method the policy's allow
\* list names and whose parameter the policy's filter tests
C26_Witness ==
    /\ dcall.req.kind = "HttpRequest"
    /\ dcall.upstream # NoUpstream
    /\ RpcMethod(dcall.req) # "none"
    /\ policy[dcall.req.tool].jsonrpc_allow_methods # <<>>
    /\ RpcMethod(dcall.req) \in DOMAIN policy[dcall.req.tool].jsonrpc_param_filters

\* C30: the Error returned for a CliRequest names the failure: rate_limited when the
\* rate limiter refused the request, policy_denied when the argv matcher rejects the
\* argv, invalid_binary when the binary path fails validation, shell_injection when an
\* argument has a dangerous shell character
C30_DescriptiveErrorCodes ==
    (dcall.req.kind = "CliRequest" /\ dcall.out.kind = "Error") =>
       LET p == policy[dcall.req.tool] IN
       /\ ~dcall.admitted => dcall.out.code = "rate_limited"
       /\ (dcall.admitted /\ p.type = "cli"
             /\ MatcherBuilds(p.argv_allow_patterns, p.argv_deny_patterns)) =>
            LET accepted == Matches([allow_patterns |-> p.argv_allow_patterns,
                                     deny_patterns |-> p.argv_deny_patterns],
                                    dcall.req.argv)
                badBinary == ~ValidateBinaryPath(p.binary)
                badArg == \E i \in 1..Len(dcall.req.argv) :
                             HasDangerousShellChars(dcall.req.argv[i])
            IN  /\ ~accepted => dcall.out.code = "policy_denied"
                /\ (accepted /\ badBinary /\ ~badArg) => dcall.out.code = "invalid_binary"
                /\ (accepted /\ badArg /\ ~badBinary) => dcall.out.code = "shell_injection"
                /\ (accepted /\ badArg /\ badBinary) =>
                      dcall.out.code \in {"invalid_binary", "shell_injection"}

(***************************************************************************)
(* The agent's HTTP proxy (http_proxy.rs): one request on one of its       *)
(* routes, from the request's arrival to the answer to the HTTP client.    *)
(* The multiplexer delivers the messages that carry the request's id to    *)
(* the waiter's channel; the handler reads the channel.  A text is the     *)
(* sequence of its lines.                                                  *)
(***************************************************************************)
\* the routes of the router with a handler that goes to the server
Routes == {"/rpc", "/api/v1/rpc", "/api/:tool/:path", "/api/v1/events", "fallback"}

\* the routes whose handler parses the body as JSON and fails without it
JsonRoutes == {"/rpc", "/api/v1/rpc", "fallback"}

\* the routes whose handler looks for an SSE response
SseAwareRoutes == {"/rpc", "/api/:tool/:path"}

\* the request's body as the handler sees it
RequestBodies == {"unreadable", "empty", "malformed", "json"}

\* HttpResponse.body: None, or a text
ResponseBodies == {"absent", <<>>, <<"e1">>, <<"e1", "", "e2">>}

\* resp.body.unwrap_or_default()
UnwrapOrDefault(body) == IF body = "absent" THEN <<>> ELSE body

\* the messages of the server that carry the request's id
ProxyMsgs ==
    [kind : {"HttpResponse"}, status : {200, 403, 99}, sse : BOOLEAN, body : ResponseBodies]
      \cup [kind : {"Error"},
            code : {"rate_limited", "http_error", "policy_denied", "timeout", "malformed"},
            message : {<<"denied: not in allow list">>}]
      \cup [kind : {"SseEvent"}, event : {"message"}, data : {<<"e1">>, <<"e2">>}]
      \cup [kind : {"CliResponse"}]

\* StatusCode::from_u16(resp.status).unwrap_or(StatusCode::OK)
StatusOf(status) == IF status >= 100 /\ status < 1000 THEN status ELSE 200

\* HttpProxyError::into_response
IntoResponse(err) ==
    CASE err = "InvalidBody"       -> [status |-> 400, body |-> <<"Invalid request body">>]
      [] err = "MalformedJson"     -> [status |-> 400, body |-> <<"Malformed JSON">>]
      [] err = "WrongResponseType" -> [status |-> 500, body |-> <<"Wrong response type">>]
      [] err = "NoResponse"        -> [status |-> 504, body |-> <<"No response from server">>]

\* the lines of an SSE response the handlers of /rpc and /api/:tool/:path keep
NonEmptyLines(text) == SelectSeq(text, LAMBDA line : line # "")

\* the match on the message received: the answer to the HTTP client
AnswerTo(route, m) ==
    IF m.kind = "HttpResponse"
    THEN [status |-> StatusOf(m.status),
          body |-> IF route \in SseAwareRoutes /\ m.sse
                   THEN NonEmptyLines(UnwrapOrDefault(m.body))
                   ELSE UnwrapOrDefault(m.body)]
    ELSE IntoResponse("WrongResponseType")

\* the handler has returned resp to the HTTP client
Answered(route, cause, got, resp) ==
    [pc |-> "done", route |-> route, cause |-> cause, got |-> got,
     status |-> resp.status, body |-> resp.body]

NoneReceived == [kind |-> "none"]

\* a request arrives: the handler reads and parses the body, registers the waiter
\* and sends the HttpRequest
ProxyRequest(route, body, sent) ==
    /\ hp = NoHandler
    /\ IF route # "/api/v1/events" /\ body = "unreadable"
       THEN /\ hp' = Answered(route, "body", NoneReceived, IntoResponse("InvalidBody"))
            /\ UNCHANGED hrx
       ELSE IF route \in JsonRoutes /\ body # "json"
       THEN /\ hp' = Answered(route, "body", NoneReceived, IntoResponse("MalformedJson"))
            /\ UNCHANGED hrx
       ELSE IF ~sent
       THEN /\ hp' = Answered(route, "send", NoneReceived, IntoResponse("NoResponse"))
            /\ hrx' = [buf |-> <<>>, open |-> TRUE]
       ELSE /\ hp' = [pc |-> "await", route |-> route]
            /\ hrx' = [buf |-> <<>>, open |-> TRUE]

\* Multiplexer::handle_response puts a message of the server into the waiter's channel
Deliver(m) ==
    /\ hp.pc = "await"
    /\ hrx.open
    /\ Len(hrx.buf) < MaxDelivered
    /\ hrx' = [hrx EXCEPT !.buf = Append(@, m)]
    /\ UNCHANGED hp

\* cleanup_on_disconnect drops the waiter's Sender
WaiterClosed ==
    /\ hp.pc = "await"
    /\ hrx.open
    /\ hrx' = [hrx EXCEPT !.open = FALSE]
    /\ UNCHANGED hp

\* timeout(60 s, or 300 s on /api/v1/events, rx.recv()) ends, and the handler answers
ProxyAwait(expired) ==
    /\ hp.pc = "await"
    /\ IF expired
       THEN /\ hp' = Answered(hp.route, "deadline", NoneReceived, IntoResponse("NoResponse"))
            /\ UNCHANGED hrx
       ELSE IF hrx.buf # <<>>
       THEN /\ hp' = Answered(hp.route, "message", Head(hrx.buf), AnswerTo(hp.route, Head(hrx.buf)))
            /\ hrx' = [hrx EXCEPT !.buf = Tail(@)]
       ELSE /\ ~hrx.open
            /\ hp' = Answered(hp.route, "closed", NoneReceived, IntoResponse("NoResponse"))
            /\ UNCHANGED hrx

InitProxy ==
    /\ ProxyIdle
    /\ lastOp = "new"
    /\ MuxIdle
    /\ ConnIdle
    /\ AgentIdle
    /\ RateIdle
    /\ CodecIdle
    /\ ListenIdle
    /\ AcceptIdle
    /\ PolicyIdle
    /\ DispatchIdle
    /\ SseIdle
    /\ BackoffIdle
    /\ ExecIdle

restOfProxy ==
    <<lastOp, muxVars, connVars, agentVars, rateVars, codecVars, listenVars, acceptVars,
      policyVars, dispatchVars, sseVars, backoffVars, execVars>>

NextProxy ==
    \/ /\ hp = NoHandler
       /\ \E route \in Routes, body \in RequestBodies, sent \in BOOLEAN :
             ProxyRequest(route, body, sent) /\ UNCHANGED restOfProxy
    \/ \E m \in ProxyMsgs : Deliver(m) /\ UNCHANGED restOfProxy
    \/ WaiterClosed /\ UNCHANGED restOfProxy
    \/ \E expired \in BOOLEAN : ProxyAwait(expired) /\ UNCHANGED restOfProxy

SpecProxy == InitProxy /\ [][NextProxy]_vars

(***************************************************************************)
(* HTTP proxy claims (checked under SpecProxy).                            *)
(***************************************************************************)
\* C27: when the message an HTTP handler receives from its waiter is an Error of the
\* server, the handler answers the HTTP client with the status mapped from the Error's
\* code (403 policy denial, 429 rate_limited, 504 timeout, 400 malformed request, 500
\* otherwise) and with the Error's message in the body.
C27_ErrorStatusMapped ==
    (hp.pc = "done" /\ hp.cause = "message" /\ hp.got.kind = "Error") =>
       /\ hp.status = CASE hp.got.code = "policy_denied" -> 403
                        [] hp.got.code = "rate_limited"  -> 429
                        [] hp.got.code = "timeout"       -> 504
                        [] hp.got.code = "malformed"     -> 400
                        [] OTHER                         -> 500
       /\ hp.body = hp.got.message

\* C28: on GET /api/v1/events every SseEvent the handler receives from its waiter goes
\* to the HTTP client as a data chunk, and the client's stream ends only when the
\* channel closes, at the deadline, or with a terminal HttpResponse.
C28_EventsForwarded ==
    (hp.pc = "done" /\ hp.route = "/api/v1/events") =>
       /\ hp.cause = "message" => hp.got.kind = "HttpResponse"
       /\ hp.got.kind = "SseEvent" => hp.body = hp.got.data

(***************************************************************************)
(* The server's HTTP dispatcher, proxy_to_upstream (http_dispatch.rs):     *)
(* one request that has passed the checks of dispatch_http, from the       *)
(* request to the upstream to the return.  The upstream writes the lines   *)
(* of its body one by one and closes; the clock shows in the seconds the   *)
(* call has waited for the body.  The event channel is sseq.               *)
(***************************************************************************)
\* the 2 seconds the call waits for the body of an SSE endpoint
SseWaitSecs == 2

\* the requests proxied: an SSE endpoint and another one
UpstreamRequests ==
    [kind : {"HttpRequest"}, id : Ids, tool : {"signal"}, method : {"GET", "TRACE"},
     path : {"/api/v1/events", "/api/v1/rpc"}]

\* the content types of the upstream's response
ContentTypes == {"text/event-stream", "application/json"}

\* the lines an upstream writes: data lines, and the blank line that ends an event
UpstreamLines == {"data: a", "data: b", ""}

\* req.path.contains("/api/v1/events")
IsSseEndpoint(req) == req.path = "/api/v1/events"

\* the call has returned: Err(..), or Ok(HttpResponse)
Returned(req, ctype, waited, result) ==
    [pc |-> "done", req |-> req, ctype |-> ctype, waited |-> waited, result |-> result]

\* proxy_to_upstream up to the response's status and headers: the method's builder,
\* then timeout(.., request_builder.send())
ProxyToUpstream(req, sent, ctype) ==
    /\ pu = NoProxy
    /\ IF req.method # "GET" \/ sent # "ok"
       THEN /\ pu' = Returned(req, "none", 0, [kind |-> "Err"])
            /\ UNCHANGED ups
       ELSE /\ pu' = [pc |-> "body", req |-> req, ctype |-> ctype, waited |-> 0]
            /\ ups' = [lines |-> <<>>, open |-> TRUE]
    /\ UNCHANGED sseq

\* the upstream writes a line of its body
UpstreamWrite(line) ==
    /\ pu.pc = "body"
    /\ ups.open
    /\ Len(ups.lines) < MaxLines
    /\ ups' = [ups EXCEPT !.lines = Append(@, line)]
    /\ UNCHANGED <<pu, sseq>>

\* the upstream ends the body
UpstreamClose ==
    /\ pu.pc = "body"
    /\ ups.open
    /\ ups' = [ups EXCEPT !.open = FALSE]
    /\ UNCHANGED <<pu, sseq>>

\* a second passes while the call is in response.text()
BodyTick ==
    /\ pu.pc = "body"
    /\ pu.waited < SseWaitSecs
    /\ pu' = [pu EXCEPT !.waited = @ + 1]
    /\ UNCHANGED <<ups, sseq>>

\* HttpResponse { id, status, headers, body }
UpstreamResponse(req, ctype, body) ==
    [kind |-> "HttpResponse", id |-> req.id, ctype |-> ctype, body |-> body]

\* response.text() ends, whole, with an error, or (SSE endpoint) at the 2 seconds,
\* and the call returns the response
BodyEnds(how) ==
    /\ pu.pc = "body"
    /\ CASE how = "complete" -> ~ups.open
         [] how = "error"    -> TRUE
         [] how = "timeout"  -> IsSseEndpoint(pu.req) /\ pu.waited = SseWaitSecs
    /\ pu' = Returned(pu.req, pu.ctype, pu.waited,
                UpstreamResponse(pu.req, pu.ctype,
                    IF how = "complete" THEN ups.lines
                    ELSE IF IsSseEndpoint(pu.req) THEN <<>>
                    ELSE "absent"))
    /\ UNCHANGED <<ups, sseq>>

InitSse ==
    /\ SseIdle
    /\ lastOp = "new"
    /\ MuxIdle
    /\ ConnIdle
    /\ AgentIdle
    /\ RateIdle
    /\ CodecIdle
    /\ ListenIdle
    /\ AcceptIdle
    /\ PolicyIdle
    /\ DispatchIdle
    /\ ProxyIdle
    /\ BackoffIdle
    /\ ExecIdle

restOfSse ==
    <<lastOp, muxVars, connVars, agentVars, rateVars, codecVars, lin, lout, ls, lhist,
      acceptVars, policyVars, dispatchVars, proxyVars, backoffVars, execVars>>

NextSse ==
    \/ /\ pu = NoProxy
       /\ \E req \in UpstreamRequests, sent \in {"ok", "error", "timeout"}, ctype \in ContentTypes :
             ProxyToUpstream(req, sent, ctype) /\ UNCHANGED restOfSse
    \/ \E line \in UpstreamLines : UpstreamWrite(line) /\ UNCHANGED restOfSse
    \/ UpstreamClose /\ UNCHANGED restOfSse
    \/ BodyTick /\ UNCHANGED restOfSse
    \/ \E how \in {"complete", "error", "timeout"} : BodyEnds(how) /\ UNCHANGED restOfSse

SpecSse == InitSse /\ [][NextSse]_vars

(***************************************************************************)
(* SSE dispatch claim (checked under SpecSse).                             *)
(***************************************************************************)
\* C29: for an upstream response with content-type text/event-stream the dispatcher
\* puts one SseEvent {id = request id, tool, event = "message"} into the event channel
\* for each blank line of the body and returns no terminal response; it does not let
\* the fixed period pass with an event complete in the body and none emitted.
C29_EventsEmitted ==
    (pu.pc \in {"body", "done"} /\ pu.ctype = "text/event-stream") =>
       LET blanks == Cardinality({i \in 1..Len(ups.lines) : ups.lines[i] = ""})
       IN  /\ pu.pc = "done" => /\ pu.result.kind # "HttpResponse"
                                /\ Len(sseq) >= blanks
           /\ \A i \in 1..Len(sseq) :
                 /\ sseq[i].kind = "SseEvent"
                 /\ sseq[i].id = pu.req.id
           /\ (pu.waited = SseWaitSecs /\ blanks > 0) => sseq # <<>>

(***************************************************************************)
(* Listener claims on decoding errors and on the order of dispatch         *)
(* (checked under SpecListen).                                             *)
(***************************************************************************)
\* C31: the read loop of a connection ends only at the end of the input with every
\* frame read: a frame that fails to decode is logged, and the loop goes on to the
\* frames after it.
C31_LoopEndsOnlyAtEof ==
    ls.pc = "ended" => (ls.eof /\ lin = <<>>)

(***************************************************************************)
(* Shutdown claim of the server (checked under SpecAccept).                *)
(***************************************************************************)
\* C32: once the signal has ended the accept loop no connection is accepted, the
\* signal is in the receiver of every connection task that has not finished, the
\* drain does not outlast the drain timeout, and a check of the drain loop that
\* finds the count at 0, or a select entered at the deadline, ends main.
C32_DrainTerminates ==
    [][ /\ srv.pc # "accepting" =>
              /\ \A a \in Addrs : tasks[a] = "backlog" => tasks'[a] = "backlog"
              /\ \A a \in Addrs : tasks[a] \in {"spawned", "serving"} => a \in srv.notified
        /\ srv'.pc \in {"drain", "select"} => srv'.elapsed <= DrainTicks
        /\ (DrainCheck /\ TrackerCount = 0) => srv'.pc = "exited"
        /\ (srv.pc = "select" /\ ~srv.slept /\ srv.elapsed = DrainTicks /\ srv' # srv) =>
              srv'.pc = "exited"
      ]_vars

\* main has left the drain at the deadline with a connection still registered
C32_Witness ==
    /\ srv.pc = "exited"
    /\ srv.elapsed = DrainTicks
    /\ TrackerCount > 0

(***************************************************************************)
(* Multiplexer claims on blocking and on re-registration (checked under    *)
(* SpecMux).                                                               *)
(***************************************************************************)
\* C33: handle_response is never suspended in its send with the waiter table's lock
\* held, so that register_waiter, remove_waiter and cleanup_on_disconnect can always
\* take the lock.
C33_NeverSuspendedWithLock ==
    hr = NoMsg

(***************************************************************************)
(* The backoff of Connection::establish_connection (connection.rs): one    *)
(* call with its configuration, the outcome of each try_connect, and the   *)
(* sleeps between the attempts, in milliseconds.                           *)
(***************************************************************************)
\* the limit in the backoff expression
BackoffCapMs == 3600000

\* values of reconnect_backoff_ms
InitialBackoffs == {0, 1, 50, 100, 4000000}

Min(a, b) == IF a < b THEN a ELSE b

RECURSIVE Pow2(_)
\* 2_u64.pow(k), for the k of the model (far below 64)
Pow2(k) == IF k = 0 THEN 1 ELSE 2 * Pow2(k - 1)

\* self.reconnect_backoff_ms * (2_u64.pow(attempt as u32)).min(3600000)
Backoff(initial, attempt) == initial * Min(Pow2(attempt), BackoffCapMs)

\* establish_connection is called
EstablishBegin(initial, attempts) ==
    /\ bk = NoEstablish
    /\ bk' = [pc |-> IF attempts = 0 THEN "done" ELSE "connecting",
              initial |-> initial, attempts |-> attempts, attempt |-> 0, sleeps |-> <<>>,
              out |-> IF attempts = 0 THEN "ReconnectionFailed" ELSE "none"]

\* one turn of the loop: try_connect, the return on Ok, the sleep after an Err that is
\* not the last attempt's, and Err(ReconnectionFailed) after the loop
EstablishTurn(connected) ==
    /\ bk.pc = "connecting"
    /\ bk' = IF connected
             THEN [bk EXCEPT !.pc = "done", !.out = "Ok"]
             ELSE IF bk.attempt < bk.attempts - 1
             THEN [bk EXCEPT !.sleeps = Append(@, Backoff(bk.initial, bk.attempt)),
                             !.attempt = @ + 1]
             ELSE [bk EXCEPT !.pc = "done", !.attempt = @ + 1, !.out = "ReconnectionFailed"]

InitBackoff ==
    /\ BackoffIdle
    /\ ExecIdle
    /\ lastOp = "new"
    /\ MuxIdle
    /\ ConnIdle
    /\ AgentIdle
    /\ RateIdle
    /\ CodecIdle
    /\ ListenIdle
    /\ AcceptIdle
    /\ PolicyIdle
    /\ DispatchIdle
    /\ ProxyIdle
    /\ SseIdle

restOfBackoff ==
    <<lastOp, muxVars, connVars, agentVars, rateVars, codecVars, listenVars, acceptVars,
      policyVars, dispatchVars, proxyVars, sseVars, execVars>>

NextBackoff ==
    \/ /\ bk = NoEstablish
       /\ \E initial \in InitialBackoffs, attempts \in 0..MaxAttempts :
             EstablishBegin(initial, attempts) /\ UNCHANGED restOfBackoff
    \/ \E connected \in BOOLEAN : EstablishTurn(connected) /\ UNCHANGED restOfBackoff

SpecBackoff == InitBackoff /\ [][NextBackoff]_vars

(***************************************************************************)
(* Backoff claim (checked under SpecBackoff).                              *)
(***************************************************************************)
\* C34: the sleep after failed attempt k is min(initial_backoff * 2^k, 3,600,000) ms;
\* there is a sleep after every failed attempt but the last and none after the last;
\* after N failed attempts the call returns reconnection-failed, and after a
\* successful one it returns without a further attempt.
C34_BackoffCapped ==
    bk.pc # "idle" =>
       /\ \A i \in 1..Len(bk.sleeps) :
             bk.sleeps[i] = Min(bk.initial * Pow2(i - 1), BackoffCapMs)
       /\ bk.pc = "connecting" => Len(bk.sleeps) = bk.attempt
       /\ bk.out = "ReconnectionFailed" =>
             /\ bk.attempt = bk.attempts
             /\ Len(bk.sleeps) = IF bk.attempts = 0 THEN 0 ELSE bk.attempts - 1
       /\ bk.out = "Ok" => Len(bk.sleeps) = bk.attempt

\* the events of request r in a sequence of messages, in the sequence's order
EventsOn(msgs, r) == SelectSeq(msgs, LAMBDA m : m.kind = "SseEvent" /\ m.id = r)

C36_ReadsDuringDispatch ==
    (ls.pc = "dispatch" /\ lin # <<>>) => ENABLED ListenRead

(***************************************************************************)
(* CliDispatcher::execute_command: the process of one CLI dispatch, with    *)
(* time in seconds.                                                         *)
(***************************************************************************)
\* timeout_secs of the CLI policies
TimeoutSecs == {1, 2, 5}

\* status.code() of a process that ended: Some(code) as <<code>>, and None, for a
\* process ended by a signal, as <<>>
ExitStatuses == {<<0>>, <<1>>, <<>>}

\* output.status.code().unwrap_or(-1)
ExitCode(code) == IF code = <<>> THEN -1 ELSE code[1]

\* dispatch_cli reaches execute_command for a tool whose policy has the timeout:
\* cmd.output() spawns the process, or fails to and the error is returned
ExecuteCommand(timeout, spawns) ==
    /\ ex = NoExec
    /\ ex' = IF spawns
             THEN [pc |-> "running", timeout |-> timeout, elapsed |-> 0,
                   out |-> [kind |-> "none"]]
             ELSE [pc |-> "returned", timeout |-> timeout, elapsed |-> 0,
                   out |-> [kind |-> "Error"]]

\* a second passes while cmd.output() is awaited
ExecTick ==
    /\ ex.pc = "running"
    /\ ex.elapsed < MaxRunSecs
    /\ ex' = [ex EXCEPT !.elapsed = @ + 1]

\* the process ends, cmd.output() returns and dispatch_cli returns the CliResponse
ExecExit(status) ==
    /\ ex.pc = "running"
    /\ ex' = [ex EXCEPT !.pc = "returned",
                        !.out = [kind |-> "CliResponse", exit_code |-> ExitCode(status)]]

InitExec ==
    /\ ExecIdle
    /\ lastOp = "new"
    /\ MuxIdle
    /\ ConnIdle
    /\ AgentIdle
    /\ RateIdle
    /\ CodecIdle
    /\ ListenIdle
    /\ AcceptIdle
    /\ PolicyIdle
    /\ DispatchIdle
    /\ ProxyIdle
    /\ SseIdle
    /\ BackoffIdle

restOfExec ==
    <<lastOp, muxVars, connVars, agentVars, rateVars, codecVars, listenVars, acceptVars,
      policyVars, dispatchVars, proxyVars, sseVars, backoffVars>>

NextExec ==
    \/ \E timeout \in TimeoutSecs, spawns \in BOOLEAN :
          ExecuteCommand(timeout, spawns) /\ UNCHANGED restOfExec
    \/ ExecTick /\ UNCHANGED restOfExec
    \/ \E status \in ExitStatuses : ExecExit(status) /\ UNCHANGED restOfExec

SpecExec == InitExec /\ [][NextExec]_vars

(***************************************************************************)
(* CLI execution claim (checked under SpecExec).                           *)
(***************************************************************************)
\* C37: a CLI dispatch never runs longer than the policy's timeout: the process is
\* not awaited beyond timeout_secs, and a dispatch that returned did so within them
C37_DispatchWithinTimeout ==
    ex.pc # "idle" => ex.elapsed <= ex.timeout

(***************************************************************************)
(* Connection claim on reconnecting during a recv (checked under SpecConn).*)
(***************************************************************************)
\* C38: a reconnect is not held up by a recv() in progress: while a recv() is
\* suspended on a connection that delivers nothing, holding the read half's lock, a
\* call of reconnect_if_needed can proceed
C38_ReconnectDuringRecv ==
    (est.built /\ est.pc = "ok" /\ rlock /\ RecvResult = "pending") =>
       ENABLED ReconnectIfNeeded

(***************************************************************************)
(* Multiplexer claim on registering an id twice (checked under SpecMux).   *)
(***************************************************************************)
\* C39: register_waiter(id) for a registered id leaves the table with its one entry
\* for id, now for a new, empty channel; the earlier channel loses its Sender and
\* keeps what is buffered, so that its receiver takes the buffered messages and is
\* then told None; at every time the live Senders are those of the table, one per id,
\* a channel without Sender gains no message, and a message goes to no channel but
\* the one the table holds for its id
C39_RegisterReplaces ==
    [][ /\ \A id \in Ids :
              (id \in DOMAIN waiters /\ RegisterWaiter(id)) =>
                 /\ DOMAIN waiters' = DOMAIN waiters
                 /\ waiters'[id] \notin ChanIdx
                 /\ channels'[waiters'[id]] = NewChannel(id)
                 /\ ~channels'[waiters[id]].tx
                 /\ channels'[waiters[id]].buf = channels[waiters[id]].buf
        /\ \A c \in DOMAIN channels' :
              channels'[c].tx <=>
                 (channels'[c].id \in DOMAIN waiters' /\ waiters'[channels'[c].id] = c)
        /\ \A c \in ChanIdx :
              /\ ~channels[c].tx => Len(channels'[c].buf) <= Len(channels[c].buf)
              /\ (channels'[c].eof /\ ~channels[c].eof) =>
                    channels[c].buf = <<>> /\ ~channels[c].tx
              /\ Len(channels'[c].buf) > Len(channels[c].buf) =>
                    /\ waiters[channels[c].id] = c
                    /\ channels'[c].buf[Len(channels'[c].buf)].id = channels[c].id
      ]_vars

\* id 1 was registered twice: the earlier receiver took the message buffered for it
\* and was then told None, and a later message for id 1 is buffered for the new one
C39_Witness ==
    /\ Len(channels) = 2
    /\ channels[1].id = 1 /\ channels[2].id = 1
    /\ channels[1].got = 1 /\ channels[1].eof
    /\ 1 \in DOMAIN waiters /\ waiters[1] = 2
    /\ Len(channels[2].buf) = 1 /\ channels[2].buf[1].n = 2

(***************************************************************************)
(* Agent claim on signals (checked under Spec).                            *)
(***************************************************************************)
\* C40: a SIGHUP does not shut the agent down: once the select of main has completed
\* with the SIGHUP branch, main goes on neither to multiplexer.clear() nor to
\* connection.kill()
C40_SighupKeepsRunning ==
    [][sd = "SIGHUP" => sd' = "SIGHUP"]_vars

====
